---- MODULE Spec2Model ----
(***************************************************************************)
(* racy: a scope profiler.  The model covers                               *)
(*   - the binary event-log codec of common/src/lib.rs (SpecCodec),        *)
(*   - the per-thread capture buffers, the spill to the sink and the       *)
(*     process-exit flush of client/src/lib.rs (Spec), and                 *)
(*   - the reconstruction of per-thread nested spans from raw events of    *)
(*     racy/src/event.rs (SpecBuild).                                      *)
(* Bytes are the integers 0..255; a byte string is a sequence of bytes; a  *)
(* Rust String is the sequence of its UTF-8 bytes.                         *)
(***************************************************************************)
EXTENDS Integers, Sequences, FiniteSets

VARIABLES
    \* ---- codec harness (SpecCodec)
    in_a,       \* the event sequence handed to serialize_events
    in_b,       \* a second event sequence, appended as an independent chunk
    data,       \* the byte string under test
    op,         \* how data was produced
    mark,       \* the cut position of a truncation / the index of a damaged byte
    decoded,    \* the io::Result of deserialize_events(data), once it ran
    \* ---- capture (Spec)
    pc,         \* per thread: position inside ScopedProfiler::drop / record_event
    status,     \* per thread: "running", "panicking" (unwinding) or "dead"
    scopes,     \* per thread: stack of live ScopedProfiler values
    created,    \* number of ScopedProfiler values created so far
    cur,        \* per thread: the Event built by the drop in progress
    allocated,  \* per thread: whether EVENTS holds a buffer for the thread
    buffer,     \* per thread: the Vec<Event> inside the thread's Mutex
    guard,      \* per thread: who holds the buffer's Mutex
    sink,       \* the write calls racy_output.bin took since it was truncated
    clock,      \* per thread: what SystemTime::now() returns next, in ns
    exit_pc,    \* position of the atexit handler dump_completion_marker
    exit_idx,   \* the buffer EVENTS.iter() is at
    reported,   \* number of "Racy error" lines written to stderr
    aborted,    \* the process aborted (panic while panicking)
    faults,     \* number of times the sink or the clock went wrong
    ATEXIT_REGISTERED, \* the AtomicBool of the same name
    truncations,\* number of times init_profiler opened the sink with truncate
    atexit_fns, \* number of libc::atexit registrations of the exit flush
    init_calls, \* one entry per init_profiler call made, in the order of the swaps
    flushes,    \* number of times exit() started dump_completion_marker
    held,       \* per thread: the buffer as it was when the exit flush began
    \* ---- reconstruction (SpecBuild)
    builder,    \* EventsBuilder.events: the raw events added so far
    built,      \* what EventsBuilder::build made of them, once it ran
    \* ---- viewer window (SpecApp)
    app,        \* the FlameGraphApp
    disk,       \* per path: what the file system holds there
    last,       \* the menu action handled last and what its file operation returned
    \* ---- plan composer (SpecPlan)
    left,       \* the first SparkPlanInfo handed to PlanComposer::new
    right,      \* the second one
    squished,   \* the SquishedPlan made of each, once new ran
    composer    \* what PlanComposer::new returned, once it ran

codec_vars == <<in_a, in_b, data, op, mark, decoded>>
init_vars == <<ATEXIT_REGISTERED, truncations, atexit_fns, init_calls>>
capture_vars == <<pc, status, scopes, created, cur, allocated, buffer, guard,
                  sink, clock, exit_pc, exit_idx, reported, aborted, faults,
                  init_vars, flushes, held>>
engine_vars == <<builder, built>>
app_vars == <<app, disk, last>>
plan_vars == <<left, right, squished, composer>>
tool_vars == <<app_vars, plan_vars>>
vars == <<codec_vars, capture_vars, engine_vars, tool_vars>>

(***************************************************************************)
(* Bounds of the model.                                                    *)
(***************************************************************************)
MaxEvents == 2        \* longest event sequence in_a
MaxEventsB == 1       \* longest event sequence in_b
MaxCalls == 2         \* calls of ScopedProfiler::new and init_profiler in a run
MaxFaults == 1        \* faults of the sink and of the clock in a run
MaxInput == 3         \* raw events handed to an EventsBuilder
MaxVec == 2           \* longest Vec handed to EventsBuilder::add_vec
WordBits == 8         \* bits of a u64 in the reconstruction (TLC counts in 32)
MaxNodes == 4         \* most nodes of a Spark plan handed to PlanComposer::new

(***************************************************************************)
(* common/src/lib.rs: Event                                                *)
(***************************************************************************)
Event(i, d, ts, n) == [id |-> i, duration |-> d, timestamp |-> ts, name |-> n]

\* Names as UTF-8 byte strings: "", "A", "B", "C", "e-acute" (2 bytes),
\* "euro sign B" (3 + 1 bytes) and an emoji (4 bytes).
NameEmpty == <<>>
NameA == <<65>>
NameB == <<66>>
NameC == <<67>>
NameEAcute == <<195, 169>>
NameEuroB == <<226, 130, 172, 66>>
NameEmoji == <<240, 159, 152, 128>>

\* The events the codec harness draws its inputs from.  Fields above 255 make
\* the byte order visible.
EventPool ==
    { Event(7, 10, 100, NameA),
      Event(7, 3, 102, NameEmpty),
      Event(258, 513, 66000, NameEAcute),
      Event(1, 1, 112, NameEuroB),
      Event(65537, 70000, 16777217, NameEmoji) }

RECURSIVE SeqsUpTo(_, _)
SeqsUpTo(S, n) ==
    IF n = 0 THEN {<<>>}
    ELSE LET shorter == SeqsUpTo(S, n - 1)
         IN  shorter \cup {Append(s, e) : s \in {x \in shorter : Len(x) = n - 1}, e \in S}

(***************************************************************************)
(* common/src/lib.rs: serialize_events                                     *)
(***************************************************************************)
\* uN::to_be_bytes with N = 8 * w: most significant byte first.
RECURSIVE to_be_bytes(_, _)
to_be_bytes(v, w) ==
    IF w = 0 THEN <<>> ELSE to_be_bytes(v \div 256, w - 1) \o <<v % 256>>

\* `name.len() as u32`: the cast keeps the low 32 bits.  Every name of the
\* model is shorter than 2^31 bytes, where the cast is the identity.
name_len_as_u32(n) == Len(n)

\* One iteration of the second loop of serialize_events, with the duration
\* and the timestamp in each other's place.
serialize_record_swapped(e) ==
    to_be_bytes(e.id, 8) \o to_be_bytes(e.duration, 8)
      \o to_be_bytes(e.timestamp, 16)
      \o to_be_bytes(name_len_as_u32(e.name), 4) \o e.name

\* One iteration of the second loop of serialize_events.
serialize_record(e) ==
    to_be_bytes(e.id, 8) \o to_be_bytes(e.timestamp, 16)
      \o to_be_bytes(e.duration, 8)
      \o to_be_bytes(name_len_as_u32(e.name), 4) \o e.name

\* The second loop of serialize_events over events[lo..hi]: the records one
\* after the other, in order.  (The range is halved to keep the evaluation
\* shallow; concatenation is associative.)
RECURSIVE serialize_records(_, _, _)
serialize_records(events, lo, hi) ==
    IF lo > hi THEN <<>>
    ELSE IF lo = hi THEN serialize_record(events[lo])
    ELSE LET mid == (lo + hi) \div 2
         IN  serialize_records(events, lo, mid) \o serialize_records(events, mid + 1, hi)

\* serialize_events that starts the output with a one-byte record count.
serialize_events_counted(events) ==
    <<Len(events)>> \o serialize_records(events, 1, Len(events))

\* The first loop only sizes the Vec's capacity (28 + name.len() per event,
\* less than the record needs, so the Vec grows); the output is the records.
serialize_events(events) == serialize_records(events, 1, Len(events))

(***************************************************************************)
(* common/src/lib.rs: deserialize_events                                   *)
(***************************************************************************)
Ok(events) == [ok |-> TRUE, events |-> events, err |-> "none"]
Err(kind) == [ok |-> FALSE, events |-> <<>>, err |-> kind]

\* No result yet: deserialize_events has not returned.
NotRun == Err("pending")

RECURSIVE from_be_bytes(_)
from_be_bytes(bytes) ==
    IF bytes = <<>> THEN 0
    ELSE from_be_bytes(SubSeq(bytes, 1, Len(bytes) - 1)) * 256 + bytes[Len(bytes)]

IsCont(b) == b >= 128 /\ b <= 191

\* String::from_utf8 accepts exactly the well-formed UTF-8 byte strings.
RECURSIVE Utf8From(_, _)
Utf8From(bs, i) ==
    IF i > Len(bs) THEN TRUE
    ELSE LET b == bs[i]
             has(k) == i + k <= Len(bs)
             cont(k) == IsCont(bs[i + k])
         IN  IF b <= 127 THEN Utf8From(bs, i + 1)
             ELSE IF b >= 194 /\ b <= 223
               THEN has(1) /\ cont(1) /\ Utf8From(bs, i + 2)
             ELSE IF b = 224
               THEN has(2) /\ bs[i + 1] >= 160 /\ bs[i + 1] <= 191 /\ cont(2)
                    /\ Utf8From(bs, i + 3)
             ELSE IF (b >= 225 /\ b <= 236) \/ b = 238 \/ b = 239
               THEN has(2) /\ cont(1) /\ cont(2) /\ Utf8From(bs, i + 3)
             ELSE IF b = 237
               THEN has(2) /\ bs[i + 1] >= 128 /\ bs[i + 1] <= 159 /\ cont(2)
                    /\ Utf8From(bs, i + 3)
             ELSE IF b = 240
               THEN has(3) /\ bs[i + 1] >= 144 /\ bs[i + 1] <= 191 /\ cont(2)
                    /\ cont(3) /\ Utf8From(bs, i + 4)
             ELSE IF b >= 241 /\ b <= 243
               THEN has(3) /\ cont(1) /\ cont(2) /\ cont(3) /\ Utf8From(bs, i + 4)
             ELSE IF b = 244
               THEN has(3) /\ bs[i + 1] >= 128 /\ bs[i + 1] <= 143 /\ cont(2)
                    /\ cont(3) /\ Utf8From(bs, i + 4)
             ELSE FALSE

from_utf8_ok(bs) == Utf8From(bs, 1)

\* The loop test with <= for <.
cursor_has_more_inclusive(pos, bytes) == pos <= Len(bytes)

\* `while cursor.position() < data.len() as u64`
cursor_has_more(pos, bytes) == pos < Len(bytes)

\* A read_exact that accepts a read one byte short.
read_exact_short_ok(pos, n, bytes) == pos + n <= Len(bytes) + 1

\* Cursor::read_exact of n bytes at pos: fails unless n bytes remain.
read_exact_ok(pos, n, bytes) == pos + n <= Len(bytes)

\* The bytes read_exact copies out (zero where a short read left the buffer
\* untouched, which only a read_exact that tolerates short reads can show).
read_bytes(pos, n, bytes) ==
    [k \in 1..n |-> IF pos + k <= Len(bytes) THEN bytes[pos + k] ELSE 0]

\* The Event pushed at the end of an iteration, with duration and timestamp
\* assigned to each other's field.
decoded_event_swapped(id, timestamp, duration, name) ==
    Event(id, timestamp, duration, name)

\* `events.push(Event { id, timestamp, duration, name })`
decoded_event(id, timestamp, duration, name) ==
    Event(id, duration, timestamp, name)

\* The state of the loop of deserialize_events: the cursor position
\* (0-based), the events pushed so far, and the value returned once the loop
\* was left.
LoopState(pos, events) == [pos |-> pos, events |-> events, returned |-> NotRun]
Return(s, result) == [s EXCEPT !.returned = result]

\* An iteration that returns what it has when a record is cut short or its
\* name is not UTF-8.
loop_step_lenient(bytes, s) ==
    LET pos == s.pos
        id == from_be_bytes(read_bytes(pos, 8, bytes))
        timestamp == from_be_bytes(read_bytes(pos + 8, 16, bytes))
        duration == from_be_bytes(read_bytes(pos + 24, 8, bytes))
        name_len == from_be_bytes(read_bytes(pos + 32, 4, bytes))
        name_buffer == read_bytes(pos + 36, name_len, bytes)
    IN  IF s.returned # NotRun THEN s
        ELSE IF ~cursor_has_more(pos, bytes) THEN Return(s, Ok(s.events))
        ELSE IF ~read_exact_ok(pos, 36, bytes) THEN Return(s, Ok(s.events))
        ELSE IF ~read_exact_ok(pos + 36, name_len, bytes) THEN Return(s, Ok(s.events))
        ELSE IF ~from_utf8_ok(name_buffer) THEN Return(s, Ok(s.events))
        ELSE LoopState(pos + 36 + name_len,
                       Append(s.events, decoded_event(id, timestamp, duration, name_buffer)))

\* The loop test and one iteration of the loop of deserialize_events: `?`
\* returns the error of the first failing read_exact or of from_utf8.
loop_step(bytes, s) ==
    LET pos == s.pos
        id == from_be_bytes(read_bytes(pos, 8, bytes))
        timestamp == from_be_bytes(read_bytes(pos + 8, 16, bytes))
        duration == from_be_bytes(read_bytes(pos + 24, 8, bytes))
        name_len == from_be_bytes(read_bytes(pos + 32, 4, bytes))
        name_buffer == read_bytes(pos + 36, name_len, bytes)
    IN  IF s.returned # NotRun THEN s
        ELSE IF ~cursor_has_more(pos, bytes) THEN Return(s, Ok(s.events))
        ELSE IF ~read_exact_ok(pos, 8, bytes) THEN Return(s, Err("UnexpectedEof"))
        ELSE IF ~read_exact_ok(pos + 8, 16, bytes) THEN Return(s, Err("UnexpectedEof"))
        ELSE IF ~read_exact_ok(pos + 24, 8, bytes) THEN Return(s, Err("UnexpectedEof"))
        ELSE IF ~read_exact_ok(pos + 32, 4, bytes) THEN Return(s, Err("UnexpectedEof"))
        ELSE IF ~read_exact_ok(pos + 36, name_len, bytes)
          THEN Return(s, Err("UnexpectedEof"))
        ELSE IF ~from_utf8_ok(name_buffer) THEN Return(s, Err("InvalidData"))
        ELSE LoopState(pos + 36 + name_len,
                       Append(s.events, decoded_event(id, timestamp, duration, name_buffer)))

\* n iterations of the loop from state s (halved to keep the evaluation
\* shallow); an iteration after the return changes nothing.
RECURSIVE loop_steps(_, _, _)
loop_steps(bytes, s, n) ==
    IF n = 0 THEN s
    ELSE IF n = 1 THEN loop_step(bytes, s)
    ELSE LET half == n \div 2
             m == loop_steps(bytes, s, half)
         IN  IF m.returned # NotRun THEN m ELSE loop_steps(bytes, m, n - half)

\* deserialize_events: the loop runs from position 0 with no events until it
\* returns.  An iteration that does not return consumes at least the 36
\* bytes of the fixed fields, so Len(bytes) \div 36 + 1 iterations reach the
\* return.
deserialize_events(bytes) ==
    loop_steps(bytes, LoopState(0, <<>>), Len(bytes) \div 36 + 1).returned

(***************************************************************************)
(* racy/src/event.rs: EventsBuilder.  A u64 of the reconstruction has      *)
(* WordBits bits: the durations, the offsets and their sums are below      *)
(* 2^WordBits or are cut to it as the code cuts them to 64 bits.  Raw      *)
(* timestamps (u128) are naturals that never reach the width of a u128.    *)
(***************************************************************************)
\* The number of values of a u64.
U64 == 2 ^ WordBits

\* `x as u64` of a u128: the low bits.
as_u64(x) == x % U64

\* a + b on u64 without overflow checks: the sum wraps.
wrapping_add(a, b) == (a + b) % U64

EventSpan(i, d, ts, dp, n) ==
    [id |-> i, duration |-> d, timestamp |-> ts, depth |-> dp, name |-> n]

Thread_new(i) == [id |-> i, spans |-> <<>>]

Events(start, total, threads) ==
    [start_time |-> start, total_duration |-> total, threads |-> threads]

\* What became of a build call: it has not run, it returned an Events, or
\* it panicked.
NotBuilt == [state |-> "none", events |-> Events(0, 0, <<>>)]
Built(ev) == [state |-> "built", events |-> ev]
Panicked == [state |-> "panicked", events |-> Events(0, 0, <<>>)]

\* EventsBuilder::new: no events.
EventsBuilder_new ==
    /\ builder = <<>>
    /\ built = NotBuilt

\* Ord for u64.
cmp(a, b) == IF a < b THEN "Less" ELSE IF a > b THEN "Greater" ELSE "Equal"

\* Ordering::reverse.
reverse(ord) ==
    IF ord = "Less" THEN "Greater" ELSE IF ord = "Greater" THEN "Less" ELSE "Equal"

\* Ord for String: byte by byte, a proper prefix before the longer string.
RECURSIVE str_cmp(_, _)
str_cmp(a, b) ==
    IF a = <<>> /\ b = <<>> THEN "Equal"
    ELSE IF a = <<>> THEN "Less"
    ELSE IF b = <<>> THEN "Greater"
    ELSE IF Head(a) # Head(b) THEN cmp(Head(a), Head(b))
    ELSE str_cmp(Tail(a), Tail(b))

\* partial_cmp with the order of the durations not reversed.
partial_cmp_not_reversed(self, other) ==
    IF cmp(self.timestamp, other.timestamp) # "Equal"
      THEN cmp(self.timestamp, other.timestamp)
    ELSE IF cmp(self.duration, other.duration) # "Equal"
      THEN cmp(self.duration, other.duration)
    ELSE IF cmp(self.id, other.id) # "Equal"
      THEN cmp(self.id, other.id)
    ELSE IF cmp(self.depth, other.depth) # "Equal"
      THEN cmp(self.depth, other.depth)
    ELSE str_cmp(self.name, other.name)

\* partial_cmp that leaves the names out.
partial_cmp_no_name(self, other) ==
    IF cmp(self.timestamp, other.timestamp) # "Equal"
      THEN cmp(self.timestamp, other.timestamp)
    ELSE IF cmp(self.duration, other.duration) # "Equal"
      THEN reverse(cmp(self.duration, other.duration))
    ELSE IF cmp(self.id, other.id) # "Equal"
      THEN cmp(self.id, other.id)
    ELSE cmp(self.depth, other.depth)

\* PartialOrd for EventSpan: timestamp, then duration reversed, then id,
\* depth and name.
partial_cmp(self, other) ==
    IF cmp(self.timestamp, other.timestamp) # "Equal"
      THEN cmp(self.timestamp, other.timestamp)
    ELSE IF cmp(self.duration, other.duration) # "Equal"
      THEN reverse(cmp(self.duration, other.duration))
    ELSE IF cmp(self.id, other.id) # "Equal"
      THEN cmp(self.id, other.id)
    ELSE IF cmp(self.depth, other.depth) # "Equal"
      THEN cmp(self.depth, other.depth)
    ELSE str_cmp(self.name, other.name)

\* x put into the sorted sequence s after every element that is not greater
\* than it.
RECURSIVE insert_sorted(_, _)
insert_sorted(s, x) ==
    IF s = <<>> THEN <<x>>
    ELSE IF partial_cmp(s[Len(s)], x) = "Greater"
      THEN Append(insert_sorted(SubSeq(s, 1, Len(s) - 1), x), s[Len(s)])
      ELSE Append(s, x)

\* Vec::sort: a stable sort by Ord.
RECURSIVE sort(_)
sort(spans) ==
    IF spans = <<>> THEN <<>>
    ELSE insert_sorted(sort(SubSeq(spans, 1, Len(spans) - 1)), spans[Len(spans)])

\* The `while` of update_depth with < in the place of <=.
RECURSIVE pop_closed_strict(_, _)
pop_closed_strict(stack, timestamp) ==
    IF stack # <<>> /\ stack[Len(stack)] < timestamp
      THEN pop_closed_strict(SubSeq(stack, 1, Len(stack) - 1), timestamp)
      ELSE stack

\* The `while` of update_depth: pop the ends that are not after timestamp.
RECURSIVE pop_closed(_, _)
pop_closed(stack, timestamp) ==
    IF stack # <<>> /\ stack[Len(stack)] <= timestamp
      THEN pop_closed(SubSeq(stack, 1, Len(stack) - 1), timestamp)
      ELSE stack

\* The `for` of update_depth with the start of the span pushed in the place
\* of its end.
RECURSIVE sweep_push_start(_, _, _)
sweep_push_start(spans, k, stack) ==
    IF k > Len(spans) THEN spans
    ELSE LET span == spans[k]
             open == pop_closed(stack, span.timestamp)
         IN  sweep_push_start([spans EXCEPT ![k].depth = Len(open)], k + 1,
                              Append(open, span.timestamp))

\* The `for` of update_depth with the depth read after the push.
RECURSIVE sweep_one_based(_, _, _)
sweep_one_based(spans, k, stack) ==
    IF k > Len(spans) THEN spans
    ELSE LET span == spans[k]
             open == pop_closed(stack, span.timestamp)
         IN  sweep_one_based([spans EXCEPT ![k].depth = Len(open) + 1], k + 1,
                             Append(open, wrapping_add(span.timestamp, span.duration)))

\* The `for` of update_depth from the k-th span on, with the stack of ends.
RECURSIVE sweep(_, _, _)
sweep(spans, k, stack) ==
    IF k > Len(spans) THEN spans
    ELSE LET span == spans[k]
             open == pop_closed(stack, span.timestamp)
         IN  sweep([spans EXCEPT ![k].depth = Len(open)], k + 1,
                   Append(open, wrapping_add(span.timestamp, span.duration)))

\* update_depth without the sort.
update_depth_unsorted(spans) == sweep(spans, 1, <<>>)

update_depth(spans) == sweep(sort(spans), 1, <<>>)

\* convert that keeps the raw timestamp.
convert_raw(raw_events, min_timestamp) ==
    [k \in 1..Len(raw_events) |->
        LET event == raw_events[k]
        IN  EventSpan(event.id, event.duration, event.timestamp, 0, event.name)]

\* convert: the timestamp becomes the offset from min_timestamp, depth 0.
convert(raw_events, min_timestamp) ==
    [k \in 1..Len(raw_events) |->
        LET event == raw_events[k]
        IN  EventSpan(event.id, event.duration,
                      as_u64(event.timestamp - min_timestamp), 0, event.name)]

\* The spans of s that have the given id, in the order of s.
RECURSIVE spans_of(_, _)
spans_of(s, i) ==
    IF s = <<>> THEN <<>>
    ELSE LET rest == spans_of(SubSeq(s, 1, Len(s) - 1), i)
         IN  IF s[Len(s)].id = i THEN Append(rest, s[Len(s)]) ELSE rest

\* partition that begins a new Thread at every span, so that a Thread
\* holds the last span of its id only.
partition_insert(spans) ==
    [i \in {spans[k].id : k \in 1..Len(spans)} |->
        LET own == spans_of(spans, i)
        IN  [Thread_new(i) EXCEPT !.spans = <<own[Len(own)]>>]]

\* partition: a Thread for each id that occurs, with its spans in arrival
\* order.
partition(spans) ==
    [i \in {spans[k].id : k \in 1..Len(spans)} |->
        [Thread_new(i) EXCEPT !.spans = spans_of(spans, i)]]

\* Iterator::min and Iterator::max over a non-empty set of numbers.
min(S) == CHOOSE m \in S : \A x \in S : m <= x
max(S) == CHOOSE m \in S : \A x \in S : m >= x

\* Some span's timestamp + duration, as build adds them, is beyond u64.
add_overflows(raw_events) ==
    /\ raw_events # <<>>
    /\ LET spans == convert(raw_events,
                            min({raw_events[k].timestamp : k \in 1..Len(raw_events)}))
       IN  \E k \in 1..Len(spans) : spans[k].timestamp + spans[k].duration >= U64

\* build with total_duration taken over the durations alone.
build_total_of_durations(raw_events) ==
    IF raw_events = <<>> THEN Panicked
    ELSE LET min_timestamp ==
                 min({raw_events[k].timestamp : k \in 1..Len(raw_events)})
             spans == convert(raw_events, min_timestamp)
             total_duration == max({spans[k].duration : k \in 1..Len(spans)})
             partitioned == partition(spans)
         IN  Built(Events(min_timestamp, total_duration,
                          [i \in DOMAIN partitioned |->
                              [partitioned[i] EXCEPT !.spans = update_depth(@)]]))

\* build with the depths assigned over the spans of all threads together.
build_depth_before_partition(raw_events) ==
    IF raw_events = <<>> THEN Panicked
    ELSE LET min_timestamp ==
                 min({raw_events[k].timestamp : k \in 1..Len(raw_events)})
             spans == convert(raw_events, min_timestamp)
             total_duration ==
                 max({wrapping_add(spans[k].timestamp, spans[k].duration) :
                         k \in 1..Len(spans)})
         IN  Built(Events(min_timestamp, total_duration,
                          partition(update_depth(spans))))

\* EventsBuilder::build.  min() of no events is None and the unwrap panics.
build(raw_events) ==
    IF raw_events = <<>> THEN Panicked
    ELSE LET min_timestamp ==
                 min({raw_events[k].timestamp : k \in 1..Len(raw_events)})
             spans == convert(raw_events, min_timestamp)
             total_duration ==
                 max({wrapping_add(spans[k].timestamp, spans[k].duration) :
                         k \in 1..Len(spans)})
             partitioned == partition(spans)
         IN  Built(Events(min_timestamp, total_duration,
                          [i \in DOMAIN partitioned |->
                              [partitioned[i] EXCEPT !.spans = update_depth(@)]]))

(***************************************************************************)
(* racy/src/app.rs: the viewer's window.  A file is what the file system   *)
(* holds at a path: nothing that can be read, or a text, which is the JSON *)
(* document of an Events, another JSON document, or no JSON at all.        *)
(***************************************************************************)

\* Option<T>.
None == [some |-> FALSE, value |-> <<>>]
Some(x) == [some |-> TRUE, value |-> x]

\* Result<(), String>.
Ok_unit == [ok |-> TRUE, err |-> ""]
Err_msg(e) == [ok |-> FALSE, err |-> e]

\* What a path may hold.
Missing == [kind |-> "missing", events |-> Events(0, 0, <<>>)]
NotJson == [kind |-> "not_json", events |-> Events(0, 0, <<>>)]
OtherJson == [kind |-> "other_json", events |-> Events(0, 0, <<>>)]

\* serde_json::to_string_pretty of an Events: the document that holds its
\* three fields.
to_string_pretty(events) == [kind |-> "events", events |-> events]

\* std::fs::read_to_string: the text at the path, or an io::Error.
read_to_string(fs, path) ==
    IF fs[path].kind = "missing"
      THEN [ok |-> FALSE, contents |-> Missing]
      ELSE [ok |-> TRUE, contents |-> fs[path]]

\* serde_json::from_str::<Events>: only the document of an Events parses.
from_str(contents) ==
    IF contents.kind = "events"
      THEN [ok |-> TRUE, events |-> contents.events]
      ELSE [ok |-> FALSE, events |-> Events(0, 0, <<>>)]

\* HashMap::clear and HashMap::insert.
HashMap_new == <<>>
insert(map, key, value) ==
    [k \in DOMAIN map \cup {key} |-> IF k = key THEN value ELSE map[k]]

\* Events::clear: the threads go, start_time and total_duration stay.
Events_clear(events) == [events EXCEPT !.threads = <<>>]

\* Events::thread_ids.
thread_ids(events) == DOMAIN events.threads

FlameGraphApp(events, folded_processes, current_file, show_error_dialog) ==
    [events |-> events, folded_processes |-> folded_processes,
     current_file |-> current_file, show_error_dialog |-> show_error_dialog]

\* FlameGraphApp::default, given what data::load_from_file built.
FlameGraphApp_default(events) == FlameGraphApp(events, HashMap_new, None, None)

\* What a method of the app leaves behind: the app, the file system and
\* the Result it returned.
Outcome(self, fs, result) == [self |-> self, fs |-> fs, result |-> result]

\* FlameGraphApp::save_to_file.  The write succeeds, or fails and leaves
\* the file as it was, or fails after it truncated the file.
save_to_file(self, fs, path, write) ==
    LET json == to_string_pretty(self.events)
    IN  CASE write = "ok" ->
               Outcome([self EXCEPT !.current_file = Some(path)],
                       [fs EXCEPT ![path] = json], Ok_unit)
          [] write = "refused" ->
               Outcome(self, fs, Err_msg("Failed to write file"))
          [] write = "cut" ->
               Outcome(self, [fs EXCEPT ![path] = NotJson],
                       Err_msg("Failed to write file"))

\* load_from_file that resets the fold states before it reads the file.
FlameGraphApp_load_clear_first(self, fs, path) ==
    LET cleared == [self EXCEPT !.folded_processes = HashMap_new]
        contents == read_to_string(fs, path)
        events == from_str(contents.contents)
    IN  IF ~contents.ok THEN Outcome(cleared, fs, Err_msg("Failed to read file"))
        ELSE IF ~events.ok THEN Outcome(cleared, fs, Err_msg("Failed to parse JSON"))
        ELSE Outcome([cleared EXCEPT !.events = events.events,
                                     !.current_file = Some(path)],
                     fs, Ok_unit)

\* FlameGraphApp::load_from_file: each ? returns the error before anything
\* of self is assigned.
FlameGraphApp_load_from_file(self, fs, path) ==
    LET contents == read_to_string(fs, path)
        events == from_str(contents.contents)
    IN  IF ~contents.ok THEN Outcome(self, fs, Err_msg("Failed to read file"))
        ELSE IF ~events.ok THEN Outcome(self, fs, Err_msg("Failed to parse JSON"))
        ELSE Outcome([self EXCEPT !.events = events.events,
                                  !.folded_processes = HashMap_new,
                                  !.current_file = Some(path)],
                     fs, Ok_unit)

\* FlameGraphApp::clear_data.
clear_data(self) ==
    [self EXCEPT !.events = Events_clear(@),
                 !.folded_processes = HashMap_new,
                 !.current_file = None]

\* The menu action handled last: its name, the path its dialog gave and
\* the Result of its file operation.
Handled(action, path, result) == [action |-> action, path |-> path, result |-> result]

\* The paths the file dialogs may give.
Paths == {"a.json", "b.json"}

\* No window is open.
NoWindow ==
    /\ app = FlameGraphApp_default(Events(0, 0, <<>>))
    /\ disk = [p \in Paths |-> Missing]
    /\ last = Handled("None", None, Ok_unit)

(***************************************************************************)
(* history_parser/src/plan_composer.rs: two Spark plans are squished and   *)
(* laid side by side.  Vec is a sequence; the Option that new returns is   *)
(* None or Some of the composer.                                           *)
(***************************************************************************)

\* main.rs, SparkPlanInfo.
SparkPlanInfo(name, simple_string, children) ==
    [name |-> name, simple_string |-> simple_string, metadata |-> <<>>,
     children |-> children, metrics |-> <<>>]

\* Operator::new: the plan node without its children.
Operator_new(plan) ==
    [name |-> plan.name, simple_string |-> plan.simple_string,
     metrics |-> plan.metrics]

SquishedPlan(operators, children) == [operators |-> operators, children |-> children]

PlanComposer(left_operators, right_operators, children) ==
    [left_operators |-> left_operators, right_operators |-> right_operators,
     children |-> children]

\* SquishedPlan::new whose loop runs once at most: if, not while.
RECURSIVE squish_once(_, _)
squish_once(plan, operators) ==
    IF Len(plan.children) = 1 /\ operators = <<>>
      THEN squish_once(plan.children[1], Append(operators, Operator_new(plan)))
      ELSE SquishedPlan(Append(operators, Operator_new(plan)),
                        [i \in 1..Len(plan.children) |->
                            squish_once(plan.children[i], <<>>)])

\* The body of SquishedPlan::new with the loop at plan and the operators
\* pushed so far.  While the node has one child the loop pushes the node and
\* goes down; the node it stops at is pushed last and its children are
\* squished in turn.
RECURSIVE squish(_, _)
squish(plan, operators) ==
    IF Len(plan.children) = 1
      THEN squish(plan.children[1], Append(operators, Operator_new(plan)))
      ELSE SquishedPlan(Append(operators, Operator_new(plan)),
                        [i \in 1..Len(plan.children) |->
                            squish(plan.children[i], <<>>)])

SquishedPlan_new(plan) == squish(plan, <<>>)

\* collect::<Option<Vec<_>>>: None as soon as one item is None.
collect_option(items) ==
    IF \E i \in 1..Len(items) : ~items[i].some THEN None
    ELSE Some([i \in 1..Len(items) |-> items[i].value])

\* PlanComposer::from_quished.
RECURSIVE from_quished(_, _)
from_quished(l, r) ==
    IF Len(l.children) # Len(r.children) THEN None
    ELSE LET children == collect_option([i \in 1..Len(l.children) |->
                             from_quished(l.children[i], r.children[i])])
         IN  IF ~children.some THEN None
             ELSE Some(PlanComposer(l.operators, r.operators, children.value))

\* PlanComposer::new.
PlanComposer_new(l, r) == from_quished(SquishedPlan_new(l), SquishedPlan_new(r))

\* What became of a PlanComposer::new call: it has not run, or it returned
\* an Option.
NotComposed == [state |-> "none", result |-> None]
Composed(result) == [state |-> "returned", result |-> result]

\* No plans are at hand.
NoPlans ==
    /\ left = SparkPlanInfo(<<>>, <<>>, <<>>)
    /\ right = SparkPlanInfo(<<>>, <<>>, <<>>)
    /\ squished = <<>>
    /\ composer = NotComposed

(***************************************************************************)
(* client/src/lib.rs: capture.  Worker threads call init_profiler, create  *)
(* and drop ScopedProfiler values; exit() runs the registered atexit       *)
(* handlers when main returns, while workers may still be running, and the *)
(* process ends when the last of them returned.  Init is the running       *)
(* process with every thread between two scopes.                           *)
(***************************************************************************)
SPILL_CONSTANT == 100

\* The ids of the worker threads (thread::current().id().as_u64()).
Threads == {2, 3}

\* Names the instrumented program passes to ScopedProfiler::new.
ScopeNames == {NameEAcute}

\* The events a thread holds after n scopes named "A", entered and left one
\* after the other, each lasting 1 ns: the k-th ends at 2k.
Recorded(t, n) == [k \in 1..n |-> Event(t, 1, 2 * k, NameA)]

\* Buffer lengths a thread can have reached before the first spill.
InitLens == {0, SPILL_CONSTANT - 1, SPILL_CONSTANT}

\* One init_profiler call: whether its swap returned false, which makes it
\* the call that opens the sink and registers the flush, and how many write
\* calls the sink held at the swap.
InitCall(first, writes) == [first |-> first, writes |-> writes]

\* The process as main() finds it: nothing recorded, nothing registered.
FreshProcess ==
    /\ pc = [t \in Threads |-> "idle"]
    /\ status = [t \in Threads |-> "running"]
    /\ scopes = [t \in Threads |-> <<>>]
    /\ created = 0
    /\ cur = [t \in Threads |-> Event(t, 0, 0, NameEmpty)]
    /\ allocated = [t \in Threads |-> FALSE]
    /\ buffer = [t \in Threads |-> <<>>]
    /\ guard = [t \in Threads |-> "free"]
    /\ sink = <<>>
    /\ clock = [t \in Threads |-> 1]
    /\ exit_pc = "main"
    /\ exit_idx = 0
    /\ reported = 0
    /\ aborted = FALSE
    /\ faults = 0
    /\ ATEXIT_REGISTERED = FALSE
    /\ truncations = 0
    /\ atexit_fns = 0
    /\ init_calls = <<>>
    /\ flushes = 0
    /\ held = [t \in Threads |-> <<>>]

\* The process before the first spill: the threads recorded no scopes yet
\* or some, and init_profiler has returned or was not called yet (nothing
\* makes a thread wait for it before its first scope).
Init ==
    /\ in_a = <<>> /\ in_b = <<>> /\ data = <<>> /\ op = "input" /\ mark = 0
    /\ decoded = NotRun
    /\ EventsBuilder_new
    /\ NoWindow /\ NoPlans
    /\ pc = [t \in Threads |-> "idle"]
    /\ status = [t \in Threads |-> "running"]
    /\ scopes = [t \in Threads |-> <<>>]
    /\ created = 0
    /\ cur = [t \in Threads |-> Event(t, 0, 0, NameEmpty)]
    /\ \E n \in [Threads -> InitLens] :
          /\ buffer = [t \in Threads |-> Recorded(t, n[t])]
          /\ allocated = [t \in Threads |-> n[t] > 0]
          /\ clock = [t \in Threads |-> 2 * n[t] + 1]
          /\ ATEXIT_REGISTERED \in BOOLEAN
    /\ guard = [t \in Threads |-> "free"]
    /\ sink = <<>>
    /\ exit_pc = "main"
    /\ exit_idx = 0
    /\ reported = 0
    /\ aborted = FALSE
    /\ faults = 0
    /\ truncations = (IF ATEXIT_REGISTERED THEN 1 ELSE 0)
    /\ atexit_fns = (IF ATEXIT_REGISTERED THEN 1 ELSE 0)
    /\ init_calls = <<>>
    /\ flushes = 0
    /\ held = [t \in Threads |-> <<>>]

\* The process is running: it neither aborted nor returned from exit().
Alive == ~aborted /\ exit_pc # "done"

\* The calls the threads made so far.
calls == created + Len(init_calls)

\* The environment may go wrong while the run has faults left: a sink
\* operation fails or writes short, the system clock is set back.
MayFault == faults < MaxFaults

\* ScopedProfiler::new: the thread's id, the start time and the name.
ScopedProfiler_new(t) ==
    /\ Alive /\ pc[t] = "idle" /\ status[t] = "running"
    /\ calls < MaxCalls
    /\ \E name \in ScopeNames :
          scopes' = [scopes EXCEPT ![t] =
                        Append(@, [id |-> t, timestamp |-> clock[t], name |-> name])]
    /\ clock' = [clock EXCEPT ![t] = @ + 1]
    /\ created' = created + 1
    /\ UNCHANGED <<tool_vars, engine_vars, codec_vars, init_vars, flushes, held, pc, status, cur, allocated, buffer, guard, sink,
                   exit_pc, exit_idx, reported, aborted, faults>>

\* Result::unwrap, as in `record_event(event).unwrap()` in drop once
\* record_event returned: Ok lets the thread go on; Err panics, and a panic
\* raised while the thread is already unwinding aborts the process.
unwrap(t, ok) ==
    /\ pc' = [pc EXCEPT ![t] = "idle"]
    /\ IF ok THEN UNCHANGED <<status, aborted>>
       ELSE IF status[t] = "panicking"
         THEN aborted' = TRUE /\ UNCHANGED status
         ELSE status' = [status EXCEPT ![t] = "panicking"] /\ UNCHANGED aborted

\* ScopedProfiler::drop up to the call of record_event and the get_or in it:
\* the innermost live scope ends (on return or while unwinding).  end is
\* SystemTime::now(): the thread's clock, and the Event is built and the
\* thread's buffer exists from here on; or, the system clock having been set
\* back since the scope began, a time before self.timestamp, and
\* end.duration_since(self.timestamp).unwrap() panics.
ScopedProfiler_drop(t) ==
    /\ Alive /\ pc[t] = "idle" /\ status[t] # "dead"
    /\ scopes[t] # <<>>
    /\ scopes' = [scopes EXCEPT ![t] = SubSeq(@, 1, Len(@) - 1)]
    /\ clock' = [clock EXCEPT ![t] = @ + 1]
    /\ LET self == scopes[t][Len(scopes[t])]
           end == clock[t]
       IN  \/ /\ cur' = [cur EXCEPT ![t] =
                            Event(self.id, end - self.timestamp, end, self.name)]
              /\ allocated' = [allocated EXCEPT ![t] = TRUE]
              /\ pc' = [pc EXCEPT ![t] = "try_lock"]
              /\ UNCHANGED <<status, aborted, faults>>
           \/ /\ MayFault
              /\ faults' = faults + 1
              /\ unwrap(t, FALSE)
              /\ UNCHANGED <<cur, allocated>>
    /\ UNCHANGED <<tool_vars, engine_vars, codec_vars, init_vars, flushes, held, created, buffer, guard,
                   sink, exit_pc, exit_idx, reported>>

\* record_event on one Mutex<Vec<Event>> shared by all threads (a plain
\* static in place of the ThreadLocal): every thread pushes into the buffer
\* of the first thread.
record_event_shared(t) ==
    LET b == CHOOSE u \in Threads : \A v \in Threads : u <= v
    IN  /\ Alive /\ pc[t] = "try_lock"
        /\ IF guard[b] = "free"
             THEN /\ buffer' = [buffer EXCEPT ![b] = Append(@, cur[t])]
                  /\ IF Len(buffer'[b]) > SPILL_CONSTANT
                       THEN /\ guard' = [guard EXCEPT ![t] = "thread"]
                            /\ pc' = [pc EXCEPT ![t] = "dump_current"]
                            /\ UNCHANGED <<status, aborted>>
                       ELSE /\ UNCHANGED guard
                            /\ unwrap(t, TRUE)
             ELSE /\ UNCHANGED <<buffer, guard>>
                  /\ unwrap(t, FALSE)
        /\ UNCHANGED <<tool_vars, engine_vars, codec_vars, init_vars, flushes, held, scopes, created,
                       cur, allocated, sink, clock, exit_pc, exit_idx,
                       reported, faults>>

\* record_event with a lock() that waits for the guard.
record_event_lock(t) ==
    /\ Alive /\ pc[t] = "try_lock"
    /\ guard[t] = "free"
    /\ buffer' = [buffer EXCEPT ![t] = Append(@, cur[t])]
    /\ IF Len(buffer'[t]) > SPILL_CONSTANT
         THEN /\ guard' = [guard EXCEPT ![t] = "thread"]
              /\ pc' = [pc EXCEPT ![t] = "dump_current"]
              /\ UNCHANGED <<status, aborted>>
         ELSE /\ UNCHANGED guard
              /\ unwrap(t, TRUE)
    /\ UNCHANGED <<tool_vars, engine_vars, codec_vars, init_vars, flushes, held, scopes, created, cur, allocated, sink, clock,
                   exit_pc, exit_idx, reported, faults>>

\* record_event: try_lock; on WouldBlock return Err; else push and, if the
\* buffer is longer than SPILL_CONSTANT, go on to dump_current with the guard
\* held, else release the guard and return Ok.
record_event(t) ==
    /\ Alive /\ pc[t] = "try_lock"
    /\ IF guard[t] = "free"
         THEN /\ buffer' = [buffer EXCEPT ![t] = Append(@, cur[t])]
              /\ IF Len(buffer'[t]) > SPILL_CONSTANT
                   THEN /\ guard' = [guard EXCEPT ![t] = "thread"]
                        /\ pc' = [pc EXCEPT ![t] = "dump_current"]
                        /\ UNCHANGED <<status, aborted>>
                   ELSE /\ UNCHANGED guard
                        /\ unwrap(t, TRUE)
         ELSE /\ UNCHANGED <<buffer, guard>>
              /\ unwrap(t, FALSE)
    /\ UNCHANGED <<tool_vars, engine_vars, codec_vars, init_vars, flushes, held, scopes, created, cur, allocated, sink, clock,
                   exit_pc, exit_idx, reported, faults>>

\* default_save_file() or file.write() returns Err: nothing is written.
sink_fails ==
    /\ MayFault
    /\ faults' = faults + 1
    /\ UNCHANGED sink

\* One write call on the sink as the file keeps it: the events whose
\* encoding was the buffer passed to write, and how many bytes at the end of
\* that buffer did not reach the file.
Written(events, short) == [events |-> events, short |-> short]

\* File::write on the sink opened with append(true) returns Ok(n): one
\* write call put the first n bytes of serialize_events(events) at the end
\* of the file, all of them or, as write (unlike write_all) allows, fewer:
\* here all but the last.  The caller does not look at n.  (No events, no
\* bytes: write returns Ok(0).)
file_write(events) ==
    \/ /\ sink' = Append(sink, Written(events, 0))
       /\ UNCHANGED faults
    \/ /\ MayFault /\ events # <<>>
       /\ sink' = Append(sink, Written(events, 1))
       /\ faults' = faults + 1

\* The bytes a write call put into the file.
bytes_written(w) ==
    LET buf == serialize_events(w.events)
    IN  SubSeq(buf, 1, Len(buf) - w.short)

\* The bytes of the file after the first k write calls: each call's bytes
\* follow those of the calls before it (OpenOptions::append).
RECURSIVE file_bytes(_, _)
file_bytes(writes, k) ==
    IF k = 0 THEN <<>>
    ELSE file_bytes(writes, k - 1) \o bytes_written(writes[k])

\* The content of racy_output.bin.
sink_bytes == file_bytes(sink, Len(sink))

\* dump_current: default_save_file()? ; file.write(..)? ; file.flush()? (a
\* no-op on a File) ; events.clear().  The guard is released when
\* record_event returns, with Ok or with the error.
dump_current(t) ==
    /\ Alive /\ pc[t] = "dump_current"
    /\ guard' = [guard EXCEPT ![t] = "free"]
    /\ \/ \* `?` returns the Err before events.clear()
          /\ sink_fails
          /\ UNCHANGED buffer
          /\ unwrap(t, FALSE)
       \/ /\ file_write(buffer[t])
          /\ buffer' = [buffer EXCEPT ![t] = <<>>]
          /\ unwrap(t, TRUE)
    /\ UNCHANGED <<tool_vars, engine_vars, codec_vars, init_vars, flushes, held, scopes, created, cur, allocated, clock,
                   exit_pc, exit_idx, reported>>

\* The thread's closure returns, or the unwinding reaches the thread's entry
\* point, before main returns.  EVENTS keeps the buffer of a thread that
\* ended.  (A thread that ends after main returned is not told from one that
\* is still there: nothing in the process reads the difference.)
thread_end(t) ==
    /\ Alive /\ pc[t] = "idle" /\ scopes[t] = <<>>
    /\ exit_pc = "main"
    /\ \/ status[t] = "panicking"
       \/ status[t] = "running" /\ calls = MaxCalls
    /\ status' = [status EXCEPT ![t] = "dead"]
    /\ UNCHANGED <<tool_vars, engine_vars, codec_vars, init_vars, flushes, held, pc,
                   scopes, created, cur, allocated, buffer, guard, sink, clock,
                   exit_pc, exit_idx, reported, aborted, faults>>

\* The first thread from t on (in id order) that has a buffer in EVENTS; 0
\* when there is none: where EVENTS.iter() stops next.
NextBuffer(t) ==
    IF \E u \in Threads : u >= t /\ allocated[u]
      THEN CHOOSE u \in Threads :
             /\ u >= t /\ allocated[u]
             /\ \A v \in Threads : (v >= t /\ allocated[v]) => u <= v
      ELSE 0

\* init_profiler with no flag: every call opens the sink and registers.
init_profiler_unguarded(t) ==
    /\ Alive /\ pc[t] = "idle" /\ status[t] = "running"
    /\ calls < MaxCalls
    /\ init_calls' = Append(init_calls, InitCall(~ATEXIT_REGISTERED, Len(sink)))
    /\ ATEXIT_REGISTERED' = TRUE
    /\ pc' = [pc EXCEPT ![t] = "init_open"]
    /\ UNCHANGED <<tool_vars, engine_vars, codec_vars, status, scopes, created, cur, allocated, buffer,
                   guard, sink, clock, exit_pc, exit_idx, reported, aborted,
                   faults, truncations, atexit_fns, flushes, held>>

\* init_profiler up to the swap: ATEXIT_REGISTERED.swap(true, SeqCst) is one
\* atomic step.  The call that read false goes on to open the sink; a call
\* that read true returns.
init_profiler(t) ==
    /\ Alive /\ pc[t] = "idle" /\ status[t] = "running"
    /\ calls < MaxCalls
    /\ init_calls' = Append(init_calls, InitCall(~ATEXIT_REGISTERED, Len(sink)))
    /\ ATEXIT_REGISTERED' = TRUE
    /\ pc' = [pc EXCEPT ![t] = IF ATEXIT_REGISTERED THEN "idle" ELSE "init_open"]
    /\ UNCHANGED <<tool_vars, engine_vars, codec_vars, status, scopes, created, cur, allocated, buffer,
                   guard, sink, clock, exit_pc, exit_idx, reported, aborted,
                   faults, truncations, atexit_fns, flushes, held>>

\* The branch of init_profiler: OpenOptions create+truncate+write
\* .open(..).unwrap() leaves the sink empty, or fails and panics; then
\* libc::atexit(dump_completion_marker).
init_profiler_open(t) ==
    /\ Alive /\ pc[t] = "init_open"
    /\ \/ /\ sink' = <<>>
          /\ truncations' = truncations + 1
          /\ atexit_fns' = atexit_fns + 1
          /\ unwrap(t, TRUE)
          /\ UNCHANGED faults
       \/ /\ sink_fails
          /\ unwrap(t, FALSE)
          /\ UNCHANGED <<truncations, atexit_fns>>
    /\ UNCHANGED <<tool_vars, engine_vars, codec_vars, scopes, created, cur, allocated, buffer, guard,
                   clock, exit_pc, exit_idx, reported, ATEXIT_REGISTERED,
                   init_calls, flushes, held>>

\* main returned and exit() has no handler to run: the process ends.
exit_unregistered ==
    /\ Alive /\ exit_pc = "main"
    /\ atexit_fns = 0
    /\ exit_pc' = "done"
    /\ UNCHANGED <<tool_vars, engine_vars, codec_vars, init_vars, pc, status, scopes, created, cur,
                   allocated, buffer, guard, sink, clock, exit_idx, reported,
                   aborted, faults, flushes, held>>

\* Where exit() is once its n-th handler returned: at the next registered
\* handler, or at the end of the process.
handler_returned(n) == IF n < atexit_fns THEN "main" ELSE "done"

\* dump_completion().unwrap() in the handler: a panic inside an
\* `extern "C"` function aborts the process.
if_let_Err_unwrap ==
    /\ aborted' = TRUE
    /\ UNCHANGED reported

\* dump_completion_marker on `Err(err)` of dump_completion: the error is
\* printed to stderr with eprintln! and the handler returns.
if_let_Err ==
    /\ reported' = reported + 1
    /\ UNCHANGED aborted

\* main returned: exit() calls the registered dump_completion_marker, which
\* calls dump_completion, which opens the sink.
dump_completion_marker ==
    /\ Alive /\ exit_pc = "main"
    /\ flushes < atexit_fns
    /\ flushes' = flushes + 1
    /\ held' = buffer
    /\ \/ /\ exit_pc' = "iter"
          /\ exit_idx' = 1
          /\ UNCHANGED <<reported, aborted, faults>>
       \/ /\ sink_fails
          /\ exit_pc' = handler_returned(flushes + 1)
          /\ if_let_Err
          /\ UNCHANGED exit_idx
    /\ UNCHANGED <<tool_vars, engine_vars, codec_vars, init_vars, pc, status, scopes, created, cur,
                   allocated, buffer, guard, sink, clock>>

\* `for events in EVENTS.iter()` with `events.lock()?`: the iterator moves
\* to the next buffer and lock() waits while the owner holds the guard.
\* With no buffer left dump_completion returns Ok and the handler returns.
dump_completion_lock ==
    /\ Alive /\ exit_pc = "iter"
    /\ LET t == NextBuffer(exit_idx)
       IN  IF t = 0
             THEN exit_pc' = handler_returned(flushes) /\ UNCHANGED <<exit_idx, guard>>
             ELSE /\ guard[t] = "free"
                  /\ guard' = [guard EXCEPT ![t] = "exit"]
                  /\ exit_pc' = "write"
                  /\ exit_idx' = t
    /\ UNCHANGED <<tool_vars, engine_vars, codec_vars, init_vars, flushes, held, pc, status, scopes,
                   created, cur, allocated, buffer, sink, clock, reported,
                   aborted, faults>>

\* The loop body of dump_completion under the guard: serialize, write,
\* flush.  The buffer is left as it is.  An Err ends the loop and is
\* printed by dump_completion_marker.
dump_completion_write ==
    /\ Alive /\ exit_pc = "write"
    /\ guard' = [guard EXCEPT ![exit_idx] = "free"]
    /\ \/ /\ file_write(buffer[exit_idx])
          /\ exit_idx' = exit_idx + 1
          /\ exit_pc' = "iter"
          /\ UNCHANGED <<reported, aborted>>
       \/ /\ sink_fails
          /\ exit_pc' = handler_returned(flushes)
          /\ if_let_Err
          /\ UNCHANGED exit_idx
    /\ UNCHANGED <<tool_vars, engine_vars, codec_vars, init_vars, flushes, held, pc, status, scopes,
                   created, cur, allocated, buffer, clock>>

Next ==
    \/ dump_completion_marker
    \/ dump_completion_lock
    \/ exit_unregistered
    \/ \E t \in Threads : thread_end(t)
    \/ \E t \in Threads : init_profiler(t)
    \/ \E t \in Threads : init_profiler_open(t)
    \/ \E t \in Threads : ScopedProfiler_new(t)
    \/ \E t \in Threads : ScopedProfiler_drop(t)
    \/ \E t \in Threads : record_event(t)
    \/ \E t \in Threads : dump_current(t)
    \/ dump_completion_write

Spec == Init /\ [][Next]_vars

(***************************************************************************)
(* Codec harness: an event sequence is serialized; the bytes are decoded   *)
(* as they are, after another chunk was appended to them, after they were  *)
(* cut short, or after a byte of a name was damaged.                       *)
(***************************************************************************)

\* 0-based offset of the i-th record of serialize_events(events), and of the
\* end of the output for i = Len(events) + 1.
RecordOffset(events, i) == Len(serialize_events(SubSeq(events, 1, i - 1)))

\* 1-based positions of the name payload bytes in serialize_events(events).
NamePositions(events) ==
    UNION { { RecordOffset(events, i + 1) - k : k \in 0..(Len(events[i].name) - 1) }
            : i \in 1..Len(events) }

InitCodec ==
    /\ in_a \in SeqsUpTo(EventPool, MaxEvents)
    /\ in_b = <<>>
    /\ data = <<>>
    /\ op = "input"
    /\ mark = 0
    /\ decoded = NotRun
    /\ FreshProcess
    /\ EventsBuilder_new
    /\ NoWindow /\ NoPlans

Serialize ==
    /\ op = "input"
    /\ data' = serialize_events(in_a)
    /\ op' = "encoded"
    /\ UNCHANGED <<in_a, in_b, mark, decoded, capture_vars, engine_vars, tool_vars>>

\* A second, independent write appends its own chunk to the same bytes.
AppendChunk ==
    /\ op = "encoded" /\ decoded = NotRun
    /\ \E b \in SeqsUpTo(EventPool, MaxEventsB) :
          /\ in_b' = b
          /\ data' = data \o serialize_events(b)
    /\ op' = "appended"
    /\ UNCHANGED <<in_a, mark, decoded, capture_vars, engine_vars, tool_vars>>

Truncate ==
    /\ op = "encoded" /\ decoded = NotRun
    /\ \E k \in 0..(Len(data) - 1) :
          /\ data' = SubSeq(data, 1, k)
          /\ mark' = k
    /\ op' = "truncated"
    /\ UNCHANGED <<in_a, in_b, decoded, capture_vars, engine_vars, tool_vars>>

\* 255 and 192 occur in no well-formed UTF-8 string.
DamageName ==
    /\ op = "encoded" /\ decoded = NotRun
    /\ \E i \in NamePositions(in_a), b \in {192, 255} :
          /\ data' = [data EXCEPT ![i] = b]
          /\ mark' = i
    /\ op' = "damaged"
    /\ UNCHANGED <<in_a, in_b, decoded, capture_vars, engine_vars, tool_vars>>

Deserialize ==
    /\ op # "input" /\ decoded = NotRun
    /\ decoded' = deserialize_events(data)
    /\ UNCHANGED <<in_a, in_b, data, op, mark, capture_vars, engine_vars, tool_vars>>

NextCodec == Serialize \/ AppendChunk \/ Truncate \/ DamageName \/ Deserialize

SpecCodec == InitCodec /\ [][NextCodec]_vars

(***************************************************************************)
(* Reconstruction harness: raw events are added to an EventsBuilder one by *)
(* one or as a Vec, in any order, and build is called.                     *)
(***************************************************************************)

\* The raw events the harness draws from: three scopes of thread 7, two
\* of thread 8, two more scopes of thread 7 that begin with another one, a
\* scope of thread 7 that took no time, one that begins where another one
\* ends and overlaps two more, and one without a name.
RawPool ==
    { Event(7, 10, 100, NameA),
      Event(7, 3, 102, NameB),
      Event(7, 1, 112, NameC),
      Event(8, 10, 101, NameA),
      Event(7, 3, 100, NameB),
      Event(7, 3, 102, NameA),
      Event(7, 0, 110, NameC),
      Event(7, 2, 103, NameA),
      Event(7, 3, 100, NameEmpty),
      Event(8, 1, 99, NameB) }

InitBuild ==
    /\ in_a = <<>> /\ in_b = <<>> /\ data = <<>> /\ op = "input" /\ mark = 0
    /\ decoded = NotRun
    /\ FreshProcess
    /\ EventsBuilder_new
    /\ NoWindow /\ NoPlans

add(event) ==
    /\ built = NotBuilt
    /\ Len(builder) < MaxInput
    /\ builder' = Append(builder, event)
    /\ UNCHANGED <<built, codec_vars, capture_vars, tool_vars>>

add_vec(events) ==
    /\ built = NotBuilt
    /\ Len(builder) + Len(events) <= MaxInput
    /\ builder' = builder \o events
    /\ UNCHANGED <<built, codec_vars, capture_vars, tool_vars>>

\* build is called; where a sum timestamp + duration does not fit a u64, a
\* build with overflow checks panics at the `+` and one without goes on
\* with the wrapped sum.
EventsBuilder_build ==
    /\ built = NotBuilt
    /\ \/ built' = build(builder)
       \/ add_overflows(builder) /\ built' = Panicked
    /\ UNCHANGED <<builder, codec_vars, capture_vars, tool_vars>>

NextBuild ==
    \/ \E event \in RawPool : add(event)
    \/ \E events \in SeqsUpTo(RawPool, MaxVec) : add_vec(events)
    \/ EventsBuilder_build

SpecBuild == InitBuild /\ [][NextBuild]_vars

\* Raw events with numbers at the edge of u64: a scope that lasted as long
\* as a u64 can tell, an event a full u64 range of nanoseconds after the
\* others, and three plain ones.
WidePool ==
    { Event(7, 10, 100, NameA),
      Event(7, U64 - 1, 102, NameB),
      Event(7, 3, 100 + U64, NameC),
      Event(7, 1, 112, NameC),
      Event(8, 1, 99, NameB) }

NextWide ==
    \/ \E event \in WidePool : add(event)
    \/ \E events \in SeqsUpTo(WidePool, MaxVec) : add_vec(events)
    \/ EventsBuilder_build

SpecWide == InitBuild /\ [][NextWide]_vars

(***************************************************************************)
(* From capture to reconstruction: a process that called init_profiler at  *)
(* its start runs scopes and ends, and the viewer loads racy_output.bin.   *)
(***************************************************************************)
InitTrace ==
    /\ Init
    /\ ATEXIT_REGISTERED
    /\ \A t \in Threads : buffer[t] = <<>>

\* data.rs load_from_file, once the profiled process is over:
\* read_events(..).unwrap() panics when the file does not decode; else the
\* events go to a new EventsBuilder with add_vec and build is called.
load_from_file ==
    /\ exit_pc = "done" \/ aborted
    /\ built = NotBuilt
    /\ LET raw_events == deserialize_events(sink_bytes)
       IN  IF raw_events.ok
             THEN /\ builder' = raw_events.events
                  /\ \/ built' = build(raw_events.events)
                     \/ add_overflows(raw_events.events) /\ built' = Panicked
             ELSE /\ built' = Panicked
                  /\ UNCHANGED builder
    /\ UNCHANGED <<codec_vars, capture_vars, tool_vars>>

NextTrace ==
    \/ dump_completion_marker
    \/ dump_completion_lock
    \/ dump_completion_write
    \/ load_from_file
    \/ \E t \in Threads : thread_end(t)
    \/ \E t \in Threads : init_profiler(t)
    \/ \E t \in Threads : ScopedProfiler_new(t)
    \/ \E t \in Threads : ScopedProfiler_drop(t)
    \/ \E t \in Threads : record_event(t)

SpecTrace == InitTrace /\ [][NextTrace]_vars

(***************************************************************************)
(* The viewer's window: the app as FlameGraphApp::default made it, and the *)
(* clicks of the user, one a frame.  Exit closes the window and            *)
(* MenuAction::None changes nothing; neither is an action here.            *)
(***************************************************************************)

\* What data::load_from_file built for the window: two threads.
StartEvents == build(<<Event(7, 10, 100, NameA), Event(8, 10, 101, NameA)>>).events

\* The Events of another recording: one thread.
OtherEvents == build(<<Event(7, 3, 102, NameB)>>).events

\* What the paths hold when the window opens.
StartFiles == {Missing, NotJson, OtherJson, to_string_pretty(OtherEvents)}

\* What a write may come to.
Writes == {"ok", "refused", "cut"}

InitApp ==
    /\ in_a = <<>> /\ in_b = <<>> /\ data = <<>> /\ op = "input" /\ mark = 0
    /\ decoded = NotRun
    /\ FreshProcess
    /\ EventsBuilder_new
    /\ NoPlans
    /\ app = FlameGraphApp_default(StartEvents)
    /\ disk \in [Paths -> StartFiles]
    /\ last = Handled("None", None, Ok_unit)

\* The part of handle_menu_action after a file operation returned: an Err
\* goes to the error dialog.
Returned(action, path, outcome) ==
    /\ app' = IF outcome.result.ok THEN outcome.self
              ELSE [outcome.self EXCEPT
                        !.show_error_dialog = Some(outcome.result.err)]
    /\ disk' = outcome.fs
    /\ last' = Handled(action, path, outcome.result)

\* The dialog was closed without a path.
Cancelled(action) ==
    /\ last' = Handled(action, None, Ok_unit)
    /\ UNCHANGED <<app, disk>>

\* MenuAction::NewFile.
NewFile ==
    /\ app' = clear_data(app)
    /\ last' = Handled("NewFile", None, Ok_unit)
    /\ UNCHANGED <<disk, codec_vars, capture_vars, engine_vars, plan_vars>>

\* MenuAction::OpenFile.
OpenFile ==
    /\ \/ Cancelled("OpenFile")
       \/ \E path \in Paths :
             Returned("OpenFile", Some(path),
                      FlameGraphApp_load_from_file(app, disk, path))
    /\ UNCHANGED <<codec_vars, capture_vars, engine_vars, plan_vars>>

\* MenuAction::SaveFile: to the current file, or as Save As without one.
SaveFile ==
    /\ IF app.current_file.some
         THEN \E write \in Writes :
                 Returned("SaveFile", app.current_file,
                          save_to_file(app, disk, app.current_file.value, write))
         ELSE \/ Cancelled("SaveFile")
              \/ \E path \in Paths, write \in Writes :
                    Returned("SaveFile", Some(path),
                             save_to_file(app, disk, path, write))
    /\ UNCHANGED <<codec_vars, capture_vars, engine_vars, plan_vars>>

\* MenuAction::SaveFileAs.
SaveFileAs ==
    /\ \/ Cancelled("SaveFileAs")
       \/ \E path \in Paths, write \in Writes :
             Returned("SaveFileAs", Some(path),
                      save_to_file(app, disk, path, write))
    /\ UNCHANGED <<codec_vars, capture_vars, engine_vars, plan_vars>>

\* MenuAction::ExpandAll.
ExpandAll ==
    /\ app' = [app EXCEPT !.folded_processes = HashMap_new]
    /\ last' = Handled("ExpandAll", None, Ok_unit)
    /\ UNCHANGED <<disk, codec_vars, capture_vars, engine_vars, plan_vars>>

\* MenuAction::CollapseAll: every thread of the events is folded.
CollapseAll ==
    /\ app' = [app EXCEPT !.folded_processes =
                  [k \in DOMAIN @ \cup thread_ids(app.events) |->
                      IF k \in thread_ids(app.events) THEN TRUE ELSE @[k]]]
    /\ last' = Handled("CollapseAll", None, Ok_unit)
    /\ UNCHANGED <<disk, codec_vars, capture_vars, engine_vars, plan_vars>>

\* The fold button in the header of a thread was clicked.
small_button_clicked(process_id) ==
    /\ process_id \in thread_ids(app.events)
    /\ LET is_folded == IF process_id \in DOMAIN app.folded_processes
                          THEN app.folded_processes[process_id] ELSE FALSE
       IN  app' = [app EXCEPT !.folded_processes = insert(@, process_id, ~is_folded)]
    /\ last' = Handled("None", None, Ok_unit)
    /\ UNCHANGED <<disk, codec_vars, capture_vars, engine_vars, plan_vars>>

\* OK was clicked in the error dialog.
error_dialog_ok ==
    /\ app.show_error_dialog.some
    /\ app' = [app EXCEPT !.show_error_dialog = None]
    /\ last' = Handled("None", None, Ok_unit)
    /\ UNCHANGED <<disk, codec_vars, capture_vars, engine_vars, plan_vars>>

NextApp ==
    \/ NewFile
    \/ OpenFile
    \/ SaveFile
    \/ SaveFileAs
    \/ ExpandAll
    \/ CollapseAll
    \/ \E process_id \in {7, 8} : small_button_clicked(process_id)
    \/ error_dialog_ok

SpecApp == InitApp /\ [][NextApp]_vars

(***************************************************************************)
(* Plan composer harness: a left plan is at hand, PlanComposer::new is     *)
(* called with it and a right plan.                                        *)
(***************************************************************************)

\* The node names of the plans.
PlanNames == {"Scan", "Filter"}

\* The plans of n nodes, and the Vecs of plans that have m nodes together.
RECURSIVE PlansOf(_), ForestsOf(_)
PlansOf(n) == {SparkPlanInfo(name, name, f) : name \in PlanNames, f \in ForestsOf(n - 1)}
ForestsOf(m) ==
    IF m = 0 THEN {<<>>}
    ELSE UNION {{<<t>> \o f : t \in PlansOf(k), f \in ForestsOf(m - k)} : k \in 1..m}

PlanPool == UNION {PlansOf(n) : n \in 1..MaxNodes}

InitPlan ==
    /\ in_a = <<>> /\ in_b = <<>> /\ data = <<>> /\ op = "input" /\ mark = 0
    /\ decoded = NotRun
    /\ FreshProcess
    /\ EventsBuilder_new
    /\ NoWindow
    /\ left \in PlanPool
    /\ right = SparkPlanInfo(<<>>, <<>>, <<>>)
    /\ squished = <<>>
    /\ composer = NotComposed

\* PlanComposer::new(left, right).
PlanComposer_new_call ==
    /\ composer = NotComposed
    /\ \E r \in PlanPool :
          /\ right' = r
          /\ squished' = <<SquishedPlan_new(left), SquishedPlan_new(r)>>
          /\ composer' = Composed(PlanComposer_new(left, r))
    /\ UNCHANGED <<left, codec_vars, capture_vars, engine_vars, app_vars>>

NextPlan == PlanComposer_new_call

SpecPlan == InitPlan /\ [][NextPlan]_vars

(***************************************************************************)
(* Properties of the codec (SpecCodec).                                    *)
(***************************************************************************)
Ran == decoded # NotRun

\* The j-th base-256 digit of v, counted from the least significant one.
RECURSIVE Digit(_, _)
Digit(v, j) == IF j = 0 THEN v % 256 ELSE Digit(v \div 256, j - 1)

\* bytes[off+1 .. off+w] is v written big-endian in w bytes.
BigEndianAt(bytes, off, w, v) ==
    \A k \in 1..w : bytes[off + k] = Digit(v, w - k)

\* Where the wire layout puts the i-th record of events (0-based offset):
\* every record before it takes 36 bytes and its name.
RECURSIVE LayoutOffset(_, _)
LayoutOffset(events, i) ==
    IF i <= 1 THEN 0
    ELSE LayoutOffset(events, i - 1) + 36 + Len(events[i - 1].name)

\* The cut positions that fall between two records of events' encoding.
RecordBoundaries(events) == { LayoutOffset(events, i) : i \in 1..(Len(events) + 1) }

\* C1: decoding the encoding of any event sequence succeeds and returns a
\* sequence of the same length whose i-th event has the id, timestamp,
\* duration and name of the i-th input event.
C1_RoundTrip ==
    (op = "encoded" /\ Ran) =>
        /\ decoded.ok
        /\ Len(decoded.events) = Len(in_a)
        /\ \A i \in 1..Len(in_a) :
              /\ decoded.events[i].id = in_a[i].id
              /\ decoded.events[i].timestamp = in_a[i].timestamp
              /\ decoded.events[i].duration = in_a[i].duration
              /\ decoded.events[i].name = in_a[i].name

\* A sequence with a zero-length name and a multi-byte name was encoded and
\* decoded.
C1_Witness ==
    /\ op = "encoded" /\ Ran
    /\ \E i, j \in 1..Len(in_a) : in_a[i].name = <<>> /\ Len(in_a[j].name) > 1

\* C2: the encoding of a non-empty event sequence without its last byte
\* makes deserialize_events return an error.
C2_TruncatedRejected ==
    (op = "truncated" /\ Ran /\ mark = Len(serialize_events(in_a)) - 1) => ~decoded.ok

\* The encoding of two events lost its last byte and was decoded.
C2_Witness ==
    /\ op = "truncated" /\ Ran /\ Len(in_a) = 2
    /\ mark = Len(serialize_events(in_a)) - 1

\* C3: an input in which a record is cut short (a cut that is not between
\* two records) or has a name that is not UTF-8 makes deserialize_events
\* return an error, UnexpectedEof or InvalidData, and none of the records
\* that precede the failure.
C3_AllOrNothing ==
    /\ (op = "truncated" /\ Ran /\ mark \notin RecordBoundaries(in_a)) =>
          decoded = Err("UnexpectedEof")
    /\ (op = "damaged" /\ Ran) => decoded = Err("InvalidData")

\* The failure came after a whole record: the second record was cut short,
\* or the second record's name was damaged.
C3_Witness ==
    /\ Ran /\ ~decoded.ok /\ decoded.events = <<>>
    /\ Len(in_a) = 2
    /\ op \in {"truncated", "damaged"}
    /\ mark > LayoutOffset(in_a, 2)
    /\ mark \notin RecordBoundaries(in_a)

\* C4: deserialize_events of a zero-length input succeeds with no events.
C4_EmptyInput ==
    (Ran /\ data = <<>>) => decoded = Ok(<<>>)

\* A zero-length input was decoded.
C4_Witness == Ran /\ data = <<>> /\ decoded.ok

\* C5: serialize_events emits for each event, in input order, one record of
\* 36 + len(name) bytes: id in 8 bytes, timestamp in 16, duration in 8, the
\* name's length in 4, all big-endian, then the name bytes; nothing before,
\* between or after the records.
C5_WireLayout ==
    op = "encoded" =>
        /\ Len(data) = LayoutOffset(in_a, Len(in_a) + 1)
        /\ \A i \in 1..Len(in_a) :
              LET off == LayoutOffset(in_a, i)
                  e == in_a[i]
              IN  /\ BigEndianAt(data, off, 8, e.id)
                  /\ BigEndianAt(data, off + 8, 16, e.timestamp)
                  /\ BigEndianAt(data, off + 24, 8, e.duration)
                  /\ BigEndianAt(data, off + 32, 4, Len(e.name))
                  /\ SubSeq(data, off + 37, off + 36 + Len(e.name)) = e.name

\* Two events were encoded, the first with a name, and with a field that
\* needs more than one byte.
C5_Witness ==
    /\ op = "encoded" /\ Len(in_a) = 2
    /\ in_a[1].name # <<>>
    /\ \E i \in 1..2 : in_a[i].id > 255

\* C6: the encoding of a ++ b is the encoding of a followed by the encoding
\* of b, and decoding the two chunks written one after the other succeeds
\* and returns a ++ b.
C6_Concatenation ==
    op = "appended" =>
        /\ data = serialize_events(in_a) \o serialize_events(in_b)
        /\ serialize_events(in_a \o in_b) = data
        /\ Ran => decoded = Ok(in_a \o in_b)

\* Two non-empty chunks were written one after the other and decoded.
C6_Witness ==
    /\ op = "appended" /\ Ran
    /\ in_a # <<>> /\ in_b # <<>>

(***************************************************************************)
(* Properties of the capture (Spec).                                       *)
(***************************************************************************)
\* C7: in every reachable state the sink is a concatenation of whole records
\* and decodes without error.
C7_SinkDecodes == deserialize_events(sink_bytes).ok

\* C8: a scope released while the buffer's guard is held by someone else is
\* dropped silently: buffer and sink stay as they are, and the thread neither
\* starts to panic nor aborts the process.
C8_SilentDrop ==
    [][\A t \in Threads :
          (pc[t] = "try_lock" /\ guard[t] # "free" /\ pc'[t] # "try_lock") =>
              /\ buffer' = buffer
              /\ sink_bytes' = sink_bytes
              /\ status'[t] = status[t]
              /\ aborted' = aborted]_vars

\* C9: a thread inside record_event can always take its next step, whoever
\* holds the guard, and while the process runs some step is always possible.
C9_NeverWaits ==
    /\ \A t \in Threads :
          /\ (Alive /\ pc[t] = "try_lock") => ENABLED record_event(t)
          /\ (Alive /\ pc[t] = "dump_current") => ENABLED dump_current(t)
    /\ Alive => ENABLED Next

\* A thread is at try_lock while the exit flush holds its buffer's guard.
C9_Witness ==
    \E t \in Threads : Alive /\ pc[t] = "try_lock" /\ guard[t] = "exit"

\* C10: a record_event that makes the buffer longer than 100 appends the
\* encoding of the whole buffer to the sink and leaves the buffer empty; one
\* that does not keeps the event in the buffer and leaves the sink alone.
C10_SpillPolicy ==
    [][\A t \in Threads :
          /\ (pc[t] = "try_lock" /\ guard[t] = "free" /\ pc'[t] # "try_lock") =>
                /\ sink_bytes' = sink_bytes
                /\ IF Len(buffer[t]) + 1 > SPILL_CONSTANT
                     THEN pc'[t] = "dump_current"
                     ELSE pc'[t] = "idle" /\ buffer'[t] = Append(buffer[t], cur[t])
          /\ (pc[t] = "dump_current" /\ pc'[t] # "dump_current") =>
                /\ sink_bytes' = sink_bytes \o serialize_events(buffer[t])
                /\ buffer'[t] = <<>>]_vars

\* C11: in every reachable state each thread's buffer holds at most 101
\* events, and at most 100 whenever the thread is not inside record_event.
C11_BoundedBuffer ==
    \A t \in Threads :
        /\ Len(buffer[t]) <= SPILL_CONSTANT + 1
        /\ pc[t] \notin {"try_lock", "dump_current"} => Len(buffer[t]) <= SPILL_CONSTANT

\* C12: a spill that ended, with or without an I/O failure, leaves the
\* thread running as it was: it neither starts to panic nor aborts the
\* process.
C12_SpillFailureInvisible ==
    [][\A t \in Threads :
          (pc[t] = "dump_current" /\ pc'[t] # "dump_current") =>
              /\ status'[t] = status[t]
              /\ aborted' = aborted]_vars

\* C13: when dump_current returns the buffer is empty, whether the sink took
\* the write or opening or writing it failed.
C13_ClearedRegardless ==
    [][\A t \in Threads :
          (pc[t] = "dump_current" /\ pc'[t] # "dump_current") =>
              buffer'[t] = <<>>]_vars

\* C14: however many init_profiler calls are made and however they
\* interleave, the sink is truncated once and the exit flush is registered
\* once: never more than once, and once as soon as a call was made and no
\* call is still on its way; and a process that ends has run the flush once
\* for each registration.
C14_InitOnce ==
    /\ truncations <= 1 /\ atexit_fns <= 1
    /\ (ATEXIT_REGISTERED /\ \A t \in Threads : pc[t] # "init_open") =>
          truncations = 1 /\ atexit_fns = 1
    /\ (exit_pc = "done" /\ ~aborted) => flushes = atexit_fns

\* C15: an init_profiler call that finds ATEXIT_REGISTERED set returns at
\* once: the sink, every buffer and the flag are as before, nothing is
\* truncated and nothing is registered.
C15_LaterInitNoOp ==
    [][(ATEXIT_REGISTERED /\ Len(init_calls') > Len(init_calls)) =>
          /\ pc' = pc
          /\ sink' = sink
          /\ buffer' = buffer
          /\ ATEXIT_REGISTERED' = ATEXIT_REGISTERED
          /\ truncations' = truncations
          /\ atexit_fns' = atexit_fns]_vars

\* A thread called init_profiler after the first call, when the sink held
\* records, and the sink still holds them.
C15_Witness ==
    \E i \in 1..Len(init_calls) :
        /\ ~init_calls[i].first
        /\ init_calls[i].writes > 0
        /\ Len(sink) >= init_calls[i].writes
        /\ truncations = 1

\* The events a reader gets from the sink: what deserialize_events makes of
\* its bytes, and nothing when it returns an error.
sink_events ==
    LET d == deserialize_events(sink_bytes)
    IN  IF d.ok THEN d.events ELSE <<>>

\* C16: when the exit flush has returned without reporting an error, every
\* event that was in a thread's buffer when the flush began, the buffers of
\* threads that ended before included, is among the events of the sink.
C16_ExitFlushCovers ==
    (exit_pc = "done" /\ flushes > 0 /\ reported = 0) =>
        LET in_sink == sink_events
        IN  \A t \in Threads : \A k \in 1..Len(held[t]) :
                \E i \in 1..Len(in_sink) : in_sink[i] = held[t][k]

\* C17: a step of the exit flush in which opening or writing the sink fails
\* writes one line to stderr and returns from the handler; no step of the
\* flush aborts the process.
C17_FlushFailureReported ==
    [][(exit_pc' # exit_pc) =>
          /\ aborted' = aborted
          /\ (faults' > faults /\ sink' = sink) =>
                /\ reported' = reported + 1
                /\ exit_pc' = "done"]_vars

\* The flush wrote one buffer, failed on the next and returned; the process
\* ended without aborting.
C17_Witness ==
    /\ exit_pc = "done" /\ ~aborted
    /\ reported = 1
    /\ exit_idx \in Threads
    /\ sink # <<>>

C19_OneEventPerScope ==
    [][\A t \in Threads :
          /\ Len(scopes'[t]) < Len(scopes[t]) =>
                LET self == scopes[t][Len(scopes[t])]
                IN  /\ Len(scopes'[t]) = Len(scopes[t]) - 1
                    /\ pc[t] = "idle" /\ pc'[t] = "try_lock"
                    /\ cur'[t] = Event(t, clock[t] - self.timestamp, clock[t],
                                        self.name)
                    /\ self.id = t
          /\ (pc[t] # "try_lock" /\ pc'[t] = "try_lock") =>
                Len(scopes'[t]) = Len(scopes[t]) - 1
          /\ cur'[t] # cur[t] => pc'[t] = "try_lock"]_vars

(***************************************************************************)
(* Properties of the reconstruction (SpecBuild).                           *)
(***************************************************************************)
\* The scopes A, B and C of thread 7.
Scenario ==
    { Event(7, 10, 100, NameA), Event(7, 3, 102, NameB), Event(7, 1, 112, NameC) }

\* C20: build of the three raw events of thread 7 with timestamps 100, 102,
\* 112, durations 10, 3, 1 and names A, B, C, in any order of arrival,
\* gives thread 7 the spans A (start 0, duration 10, depth 0), B (start 9,
\* duration 3, depth 1), C (start 21, duration 1, depth 0) in this order,
\* and total_duration 22.
C20_Scenario ==
    (/\ built.state # "none"
     /\ Len(builder) = 3
     /\ {builder[k] : k \in 1..3} = Scenario) =>
        /\ built.state = "built"
        /\ DOMAIN built.events.threads = {7}
        /\ built.events.threads[7].spans =
              << EventSpan(7, 10, 0, 0, NameA),
                 EventSpan(7, 3, 9, 1, NameB),
                 EventSpan(7, 1, 21, 0, NameC) >>
        /\ built.events.total_duration = 22

\* The places <<id, position>> of the spans of a built Events.
Places(ev) ==
    UNION {{<<i, k>> : k \in 1..Len(ev.threads[i].spans)} : i \in DOMAIN ev.threads}

\* The end offset of a span.
End(span) == span.timestamp + span.duration

\* C21: build on a builder to which no event was added returns an Events
\* with an empty thread map and total_duration 0; it does not fail.
C21_EmptyBuild ==
    (built.state # "none" /\ builder = <<>>) =>
        /\ built.state = "built"
        /\ DOMAIN built.events.threads = {}
        /\ built.events.total_duration = 0

\* C22: for a non-empty input, start_time is the least raw timestamp and
\* total_duration is the greatest timestamp + duration over the spans of
\* all threads; no span ends after total_duration.
C22_Extent ==
    (built.state # "none" /\ builder # <<>>) =>
        /\ built.state = "built"
        /\ LET ev == built.events
               span(p) == ev.threads[p[1]].spans[p[2]]
           IN  /\ \E k \in 1..Len(builder) : ev.start_time = builder[k].timestamp
               /\ \A k \in 1..Len(builder) : ev.start_time <= builder[k].timestamp
               /\ \E p \in Places(ev) : ev.total_duration = End(span(p))
               /\ \A p \in Places(ev) : ev.total_duration >= End(span(p))

\* Two threads were built, the least timestamp is not the first event's, and
\* the span that ends last is not the one that begins last.
C22_Witness ==
    /\ built.state = "built"
    /\ Cardinality(DOMAIN built.events.threads) = 2
    /\ built.events.start_time < builder[1].timestamp
    /\ LET ev == built.events
           span(p) == ev.threads[p[1]].spans[p[2]]
       IN  \E p, q \in Places(ev) :
              /\ End(span(p)) = ev.total_duration
              /\ span(q).timestamp > span(p).timestamp

\* Span b lies within span a: [start, start + duration] of b is a part of
\* that of a.
Contains(a, b) == a.timestamp <= b.timestamp /\ End(b) <= End(a)

\* One span ends before, or when, the other begins.
Apart(a, b) == End(a) <= b.timestamp \/ End(b) <= a.timestamp

\* The spans are pairwise nested or disjoint.
WellNested(spans) ==
    \A k, l \in 1..Len(spans) :
        k # l => \/ Contains(spans[k], spans[l])
                 \/ Contains(spans[l], spans[k])
                 \/ Apart(spans[k], spans[l])

\* Among spans, a is the closest span around b: b lies within a, and no
\* third span that lies within a has b within it.
ClosestAround(spans, a, b) ==
    /\ a # b
    /\ Contains(spans[a], spans[b])
    /\ ~ \E c \in (1..Len(spans)) \ {a, b} :
            Contains(spans[c], spans[b]) /\ Contains(spans[a], spans[c])

\* C23 as stated: in a thread whose spans are pairwise nested or disjoint,
\* a span B that lies within a span A, with no third span around B that lies
\* within A, has depth A.depth + 1.
C23_DepthNested ==
    built.state = "built" =>
        \A i \in DOMAIN built.events.threads :
            LET spans == built.events.threads[i].spans
            IN  WellNested(spans) =>
                    \A a, b \in 1..Len(spans) :
                        ClosestAround(spans, a, b) =>
                            spans[b].depth = spans[a].depth + 1

\* C23 amended: the same for a span B that lies within A, is not of the same
\* extent as A, and begins before A ends.
C23_DepthNestedProper ==
    built.state = "built" =>
        \A i \in DOMAIN built.events.threads :
            LET spans == built.events.threads[i].spans
            IN  WellNested(spans) =>
                    \A a, b \in 1..Len(spans) :
                        (/\ ClosestAround(spans, a, b)
                         /\ ~ Contains(spans[b], spans[a])
                         /\ spans[b].timestamp < End(spans[a])) =>
                            spans[b].depth = spans[a].depth + 1

\* A well-nested thread in which a span of depth 1 is the closest span
\* around another one, of a smaller extent.
C23_Witness ==
    /\ built.state = "built"
    /\ \E i \in DOMAIN built.events.threads :
          LET spans == built.events.threads[i].spans
          IN  /\ WellNested(spans)
              /\ \E a, b \in 1..Len(spans) :
                    /\ ClosestAround(spans, a, b)
                    /\ ~ Contains(spans[b], spans[a])
                    /\ spans[b].timestamp < End(spans[a])
                    /\ spans[a].depth = 1

\* Name x is before name y in the lexicographic order of their bytes.
LexLess(x, y) ==
    \E k \in 1..Len(y) :
        /\ k <= Len(x) + 1
        /\ \A j \in 1..(k - 1) : x[j] = y[j]
        /\ k = Len(x) + 1 \/ x[k] < y[k]

\* Span a is not after span b: by start offset, then the longer one first,
\* then by id, then by name (the depths are all 0 when the spans are
\* sorted).
NotAfter(a, b) ==
    \/ a.timestamp < b.timestamp
    \/ /\ a.timestamp = b.timestamp
       /\ \/ a.duration > b.duration
          \/ /\ a.duration = b.duration
             /\ \/ a.id < b.id
                \/ /\ a.id = b.id
                   /\ LexLess(a.name, b.name) \/ a.name = b.name

\* The spans of the state: those of the built threads, and the same before
\* their depth was assigned.
SpansOfState ==
    LET ev == built.events
        deep == {ev.threads[p[1]].spans[p[2]] : p \in Places(ev)}
    IN  deep \cup {[x EXCEPT !.depth = 0] : x \in deep}

\* C24: the spans of every thread of a built Events are in the order: start
\* offset ascending, then duration descending, then id, then depth before
\* the assignment, then name; and the comparator is a total order on spans:
\* two spans compare Equal only when they are the same span, comparing them
\* the other way round gives the reverse, and Less is transitive.
C24_SpanOrder ==
    built.state = "built" =>
        /\ \A i \in DOMAIN built.events.threads :
              LET spans == built.events.threads[i].spans
              IN  \A k, l \in 1..Len(spans) :
                      k < l => NotAfter(spans[k], spans[l])
        /\ \A a, b \in SpansOfState :
              /\ partial_cmp(a, b) \in {"Less", "Equal", "Greater"}
              /\ partial_cmp(a, b) = reverse(partial_cmp(b, a))
              /\ partial_cmp(a, b) = "Equal" <=> a = b
              /\ \A c \in SpansOfState :
                    partial_cmp(a, b) = "Less" /\ partial_cmp(b, c) = "Less"
                        => partial_cmp(a, c) = "Less"

\* Three spans of a thread begin together; the longest arrived last and is
\* first, and the other two differ in name only.
C24_Witness ==
    /\ built.state = "built"
    /\ Len(builder) = 3
    /\ \E i \in DOMAIN built.events.threads :
          LET spans == built.events.threads[i].spans
          IN  /\ Len(spans) = 3
              /\ spans[1].timestamp = spans[3].timestamp
              /\ spans[1].duration > spans[2].duration
              /\ spans[2].duration = spans[3].duration
              /\ spans[2].name # spans[3].name
              /\ builder[3].duration = spans[1].duration
              /\ builder[1].name = spans[3].name

\* The orders in which n events can arrive.
Arrivals(n) == {f \in [1..n -> 1..n] : \A j, k \in 1..n : f[j] = f[k] => j = k}

\* C25: the events of the builder, had they arrived in any other order,
\* would be built to the same Events: start_time, total_duration, thread
\* keys, and for each thread the same spans in the same order with the same
\* depths.
C25_ArrivalOrder ==
    built.state = "built" =>
        \A f \in Arrivals(Len(builder)) :
            build([k \in 1..Len(builder) |-> builder[f[k]]]) = built

\* Three events of two threads were built; they did not arrive in the order
\* of their timestamps, and two of them differ in name only.
C25_Witness ==
    /\ built.state = "built"
    /\ Len(builder) = 3
    /\ Cardinality(DOMAIN built.events.threads) = 2
    /\ builder[1].timestamp > builder[3].timestamp
    /\ \E j, k \in 1..3 :
          /\ builder[j].name # builder[k].name
          /\ [builder[j] EXCEPT !.name = <<>>] = [builder[k] EXCEPT !.name = <<>>]

\* The raw events of s that carry the id i, in the order of s.
RECURSIVE events_of(_, _)
events_of(s, i) ==
    IF s = <<>> THEN <<>>
    ELSE LET rest == events_of(SubSeq(s, 1, Len(s) - 1), i)
         IN  IF s[Len(s)].id = i THEN Append(rest, s[Len(s)]) ELSE rest

\* The spans of thread i of a built Events in their order, each with its
\* depth and with the raw timestamp it came from.
Layout(ev, i) ==
    [k \in 1..Len(ev.threads[i].spans) |->
        LET span == ev.threads[i].spans[k]
        IN  [name |-> span.name, duration |-> span.duration,
             raw |-> ev.start_time + span.timestamp, depth |-> span.depth]]

\* C26: the order and the depths of the spans of an id are those that build
\* gives to the raw events of this id alone, whatever events of other ids
\* the input holds.
C26_ThreadIndependence ==
    built.state = "built" =>
        \A i \in DOMAIN built.events.threads :
            LET alone == build(events_of(builder, i))
            IN  /\ alone.state = "built"
                /\ DOMAIN alone.events.threads = {i}
                /\ Layout(alone.events, i) = Layout(built.events, i)

\* Two threads were built, the spans of one of them lie within a span of
\* the other one, which also sets the least timestamp, and one of them has
\* depth 1.
C26_Witness ==
    /\ built.state = "built"
    /\ DOMAIN built.events.threads = {7, 8}
    /\ LET ev == built.events
       IN  /\ Len(ev.threads[7].spans) = 2
           /\ ev.threads[7].spans[2].depth = 1
           /\ ev.threads[7].spans[1].timestamp > 0
           /\ \A k \in 1..2 : Contains(ev.threads[8].spans[1], ev.threads[7].spans[k])

\* The spans before the k-th one that end after it begins.
OpenBefore(spans, k) ==
    {j \in 1..(k - 1) : End(spans[j]) > spans[k].timestamp}

\* C28: in a thread whose spans are pairwise nested or disjoint, the depth
\* of a span is the number of spans before it in the sorted order that end
\* after it begins.
C28_OpenCount ==
    built.state = "built" =>
        \A i \in DOMAIN built.events.threads :
            LET spans == built.events.threads[i].spans
            IN  WellNested(spans) =>
                    \A k \in 1..Len(spans) :
                        spans[k].depth = Cardinality(OpenBefore(spans, k))

\* A well-nested thread whose third span begins when the second one, of
\* depth 1, ends, and lies within the first.
C28_Witness ==
    /\ built.state = "built"
    /\ \E i \in DOMAIN built.events.threads :
          LET spans == built.events.threads[i].spans
          IN  /\ Len(spans) = 3
              /\ WellNested(spans)
              /\ spans[2].depth = 1
              /\ End(spans[2]) = spans[3].timestamp
              /\ spans[3].depth = 1

\* The bag of the spans of a built Events, each without its depth.
SpanBag(ev) ==
    LET flat(p) == [ev.threads[p[1]].spans[p[2]] EXCEPT !.depth = 0]
        all == {flat(p) : p \in Places(ev)}
    IN  [x \in all |-> Cardinality({p \in Places(ev) : flat(p) = x})]

\* The bag of the spans that the raw events are to become: the same id,
\* duration and name, and the timestamp less the least timestamp of all.
NormalizedBag(raw_events) ==
    LET least == CHOOSE m \in {raw_events[k].timestamp : k \in DOMAIN raw_events} :
                     \A k \in DOMAIN raw_events : m <= raw_events[k].timestamp
        norm(k) == [id |-> raw_events[k].id, duration |-> raw_events[k].duration,
                    timestamp |-> raw_events[k].timestamp - least, depth |-> 0,
                    name |-> raw_events[k].name]
        all == {norm(k) : k \in DOMAIN raw_events}
    IN  [x \in all |-> Cardinality({k \in DOMAIN raw_events : norm(k) = x})]

\* C29: for a non-empty input the spans of the built Events are, one for
\* one, the raw events with the least raw timestamp taken off the
\* timestamp and id, duration and name kept; no offset is negative and one
\* span has offset 0.
C29_Normalization ==
    (built.state # "none" /\ builder # <<>>) =>
        /\ built.state = "built"
        /\ SpanBag(built.events) = NormalizedBag(builder)
        /\ \A p \in Places(built.events) :
              built.events.threads[p[1]].spans[p[2]].timestamp >= 0
        /\ \E p \in Places(built.events) :
              built.events.threads[p[1]].spans[p[2]].timestamp = 0

\* Three events were built, one of them twice; the least timestamp is not
\* the first event's and is not 100.
C29_Witness ==
    /\ built.state = "built"
    /\ Len(builder) = 3
    /\ builder[2] = builder[3]
    /\ built.events.start_time < builder[1].timestamp
    /\ built.events.start_time # 100

\* C30: the keys of the thread map are the ids of the input, every Thread
\* has the id of its key and holds spans of this id only and at least one,
\* and the threads hold as many spans as the input has events, as many of
\* each id as the input has events of that id.
C30_PartitionConserves ==
    (built.state # "none" /\ builder # <<>>) =>
        /\ built.state = "built"
        /\ LET threads == built.events.threads
           IN  /\ DOMAIN threads = {builder[k].id : k \in 1..Len(builder)}
               /\ \A i \in DOMAIN threads :
                     /\ threads[i].id = i
                     /\ threads[i].spans # <<>>
                     /\ \A k \in 1..Len(threads[i].spans) :
                           threads[i].spans[k].id = i
                     /\ Len(threads[i].spans) =
                           Cardinality({k \in 1..Len(builder) : builder[k].id = i})
               /\ Cardinality(Places(built.events)) = Len(builder)

\* Events of two threads arrived in turns, one of them twice.
C30_Witness ==
    /\ built.state = "built"
    /\ Len(builder) = 3
    /\ builder[1] = builder[3]
    /\ builder[2].id # builder[1].id
    /\ Len(built.events.threads[builder[1].id].spans) = 2

\* C32: two spans of a thread that have the same depth do not overlap: the
\* one that is earlier in the order ends before, or when, the later one
\* begins; also when spans of the thread cross.
C32_RowsDoNotOverlap ==
    built.state = "built" =>
        \A i \in DOMAIN built.events.threads :
            LET spans == built.events.threads[i].spans
            IN  \A k, l \in 1..Len(spans) :
                    (k < l /\ spans[k].depth = spans[l].depth) =>
                        End(spans[k]) <= spans[l].timestamp

\* A thread of three spans of which the first two cross and the third has
\* the depth of the first.
C32_Witness ==
    /\ built.state = "built"
    /\ \E i \in DOMAIN built.events.threads :
          LET spans == built.events.threads[i].spans
          IN  /\ Len(spans) = 3
              /\ spans[1].timestamp < spans[2].timestamp
              /\ spans[2].timestamp < End(spans[1])
              /\ End(spans[1]) < End(spans[2])
              /\ spans[2].depth = 1
              /\ spans[3].depth = spans[1].depth

\* C33: in every thread the first span has depth 0 and every later span
\* is at most one deeper than the span before it, so that every depth is
\* less than the number of spans of the thread.
C33_DepthStep ==
    built.state = "built" =>
        \A i \in DOMAIN built.events.threads :
            LET spans == built.events.threads[i].spans
            IN  /\ spans[1].depth = 0
                /\ \A k \in 2..Len(spans) :
                      spans[k].depth <= spans[k - 1].depth + 1
                /\ \A k \in 1..Len(spans) : spans[k].depth < Len(spans)

\* A thread of three spans whose depths are 0, 1 and 2.
C33_Witness ==
    /\ built.state = "built"
    /\ \E i \in DOMAIN built.events.threads :
          LET spans == built.events.threads[i].spans
          IN  /\ Len(spans) = 3
              /\ spans[2].depth = 1
              /\ spans[3].depth = 2

(***************************************************************************)
(* Properties of the log (Spec).                                          *)
(***************************************************************************)
\* The events of a sequence, as a set.
Range(events) == {events[k] : k \in 1..Len(events)}

\* C34: every recorded event is written to the sink at most once: no write
\* call holds an event twice, and no two write calls hold the same event.
C34_NoDuplication ==
    /\ \A w \in 1..Len(sink) :
          Cardinality(Range(sink[w].events)) = Len(sink[w].events)
    /\ \A v, w \in 1..Len(sink) :
          v < w => Range(sink[v].events) \cap Range(sink[w].events) = {}

\* C35: whatever was written to the sink stays there: every step leaves the
\* write calls the sink held where they were, a call of init_profiler
\* included.
C35_InitKeepsData ==
    [][\A w \in 1..Len(sink) : w <= Len(sink') /\ sink'[w] = sink[w]]_vars

\* C36: the records of a thread are in the sink in the order in which the
\* thread recorded them: within a write call and from one write call to a
\* later one, an event of a thread that comes later in the sink ended
\* later.
C36_ThreadOrder ==
    /\ \A w \in 1..Len(sink) :
          \A k \in 1..(Len(sink[w].events) - 1) :
              sink[w].events[k].id = sink[w].events[k + 1].id =>
                  sink[w].events[k].timestamp < sink[w].events[k + 1].timestamp
    /\ \A v, w \in 1..Len(sink) :
          (/\ v < w
           /\ sink[v].events # <<>> /\ sink[w].events # <<>>
           /\ sink[v].events[1].id = sink[w].events[1].id) =>
              sink[v].events[Len(sink[v].events)].timestamp
                  < sink[w].events[1].timestamp

\* C37: when the exit flush failed at the buffer of one thread, the buffers
\* of the threads after it that held events when the flush began have been
\* written to the sink all the same.
C37_FlushGoesOn ==
    (exit_pc = "done" /\ reported > 0 /\ exit_idx \in Threads) =>
        \A u \in Threads :
            (u > exit_idx /\ held[u] # <<>>) =>
                \E w \in 1..Len(sink) :
                    /\ Len(sink[w].events) >= Len(held[u])
                    /\ SubSeq(sink[w].events, 1, Len(held[u])) = held[u]

(***************************************************************************)
(* Properties of the arithmetic of the reconstruction (SpecWide).          *)
(***************************************************************************)
\* The stack sweep over sorted spans with every end the sum of the
\* naturals timestamp and duration.
RECURSIVE ExactSweep(_, _, _)
ExactSweep(spans, k, stack) ==
    IF k > Len(spans) THEN spans
    ELSE LET open == pop_closed(stack, spans[k].timestamp)
         IN  ExactSweep([spans EXCEPT ![k].depth = Len(open)], k + 1,
                        Append(open, End(spans[k])))

\* C38: for every input build returns, every span's offset is the raw
\* timestamp less the least raw timestamp (the cast to u64 loses nothing),
\* total_duration is the greatest sum offset + duration, and the depths are
\* those of the sweep with each pushed end the sum offset + duration: no
\* sum wraps, whatever durations and timestamps the input holds.
C38_NoWraparound ==
    (built.state # "none" /\ builder # <<>>) =>
        /\ built.state = "built"
        /\ SpanBag(built.events) = NormalizedBag(builder)
        /\ \A p \in Places(built.events) :
              built.events.total_duration >=
                  End(built.events.threads[p[1]].spans[p[2]])
        /\ \E p \in Places(built.events) :
              built.events.total_duration =
                  End(built.events.threads[p[1]].spans[p[2]])
        /\ \A i \in DOMAIN built.events.threads :
              LET spans == built.events.threads[i].spans
              IN  spans = ExactSweep(spans, 1, <<>>)

(***************************************************************************)
(* Properties from capture to reconstruction (SpecTrace).                  *)
(***************************************************************************)
\* When the scope of a raw event began: its end less its duration.
ScopeStart(e) == e.timestamp - e.duration

\* The scope of a began and ended strictly within the scope of b, on the
\* same thread.
ScopeInside(a, b) ==
    /\ a.id = b.id
    /\ ScopeStart(b) < ScopeStart(a)
    /\ a.timestamp < b.timestamp

\* The depth that the loaded Events gives to the span of raw event e.
DepthOf(e) ==
    LET spans == built.events.threads[e.id].spans
        k == CHOOSE k \in 1..Len(spans) :
                 /\ spans[k].name = e.name
                 /\ spans[k].duration = e.duration
                 /\ spans[k].timestamp = e.timestamp - built.events.start_time
    IN  spans[k].depth

\* C31: in the Events loaded from the file of a finished run, the span of a
\* scope that began and ended strictly inside another scope of its thread,
\* with no third scope between the two, is one deeper than the span of that
\* scope.
C31_NestedScopes ==
    built.state = "built" =>
        \A j, k \in 1..Len(builder) :
            (/\ ScopeInside(builder[j], builder[k])
             /\ ~ \E m \in 1..Len(builder) :
                     /\ ScopeInside(builder[j], builder[m])
                     /\ ScopeInside(builder[m], builder[k])) =>
                DepthOf(builder[j]) = DepthOf(builder[k]) + 1

(***************************************************************************)
(* Properties of the viewer's window (SpecApp).                            *)
(***************************************************************************)

\* C39: a failed import leaves the view unchanged.  When Open was handled
\* with a path and load_from_file returned an Err, the app's events, fold
\* states and current_file are what they were before the step and the
\* error dialog holds the message of the Err (the file could not be read, or
\* its text could not be parsed); when it returned Ok, the events are
\* those of the file, no fold state is left, current_file is the path and
\* the error dialog is as it was.
C39_FailedImport ==
    [][(last'.action = "OpenFile" /\ last'.path.some) =>
          IF ~last'.result.ok
            THEN /\ app'.events = app.events
                 /\ app'.folded_processes = app.folded_processes
                 /\ app'.current_file = app.current_file
                 /\ app'.show_error_dialog = Some(last'.result.err)
                 /\ last'.result.err \in {"Failed to read file", "Failed to parse JSON"}
                 /\ disk[last'.path.value].kind # "events"
            ELSE /\ disk[last'.path.value].kind = "events"
                 /\ app'.events = disk[last'.path.value].events
                 /\ app'.folded_processes = HashMap_new
                 /\ app'.current_file = last'.path
                 /\ app'.show_error_dialog = app.show_error_dialog]_vars

\* An import failed at the parse while a thread was folded and another
\* file was the current one.
C39_Witness ==
    /\ last.action = "OpenFile" /\ last.path.some
    /\ last.result = Err_msg("Failed to parse JSON")
    /\ \E k \in DOMAIN app.folded_processes : app.folded_processes[k]
    /\ app.current_file.some /\ app.current_file # last.path
    /\ thread_ids(app.events) # {}
    /\ app.show_error_dialog = Some("Failed to parse JSON")

(***************************************************************************)
(* Properties of the plan composer (SpecPlan).                             *)
(***************************************************************************)

\* The concatenation of a sequence of sequences.
RECURSIVE Flatten(_)
Flatten(seqs) ==
    IF seqs = <<>> THEN <<>> ELSE Head(seqs) \o Flatten(Tail(seqs))

\* The nodes of a plan as operators, top-down: a node before its children,
\* the children from first to last.
RECURSIVE TopDown(_)
TopDown(plan) ==
    <<Operator_new(plan)>> \o
        Flatten([i \in 1..Len(plan.children) |-> TopDown(plan.children[i])])

\* The operators of a squished tree, top-down.
RECURSIVE OperatorsOf(_)
OperatorsOf(sq) ==
    sq.operators \o
        Flatten([i \in 1..Len(sq.children) |-> OperatorsOf(sq.children[i])])

\* The numbers of children of the nodes of a plan that do not have exactly
\* one child, top-down.
RECURSIVE Forks(_)
Forks(plan) ==
    (IF Len(plan.children) = 1 THEN <<>> ELSE <<Len(plan.children)>>) \o
        Flatten([i \in 1..Len(plan.children) |-> Forks(plan.children[i])])

\* The numbers of children and of operators of the nodes of a squished
\* tree, top-down.
RECURSIVE ChildCounts(_)
ChildCounts(sq) ==
    <<Len(sq.children)>> \o
        Flatten([i \in 1..Len(sq.children) |-> ChildCounts(sq.children[i])])

RECURSIVE OperatorCounts(_)
OperatorCounts(sq) ==
    <<Len(sq.operators)>> \o
        Flatten([i \in 1..Len(sq.children) |-> OperatorCounts(sq.children[i])])

\* Two squished trees have the same shape.
RECURSIVE SameShape(_, _)
SameShape(l, r) ==
    /\ Len(l.children) = Len(r.children)
    /\ \A i \in 1..Len(l.children) : SameShape(l.children[i], r.children[i])

\* What SquishedPlan::new made of a plan is the plan with every chain of
\* single-child nodes in one node.
Squished(plan, sq) ==
    /\ \A c \in Range(ChildCounts(sq)) : c # 1
    /\ \A c \in Range(OperatorCounts(sq)) : c >= 1
    /\ OperatorsOf(sq) = TopDown(plan)
    /\ ChildCounts(sq) = Forks(plan)

\* C40: plan squishing and composition.  After PlanComposer::new(left,
\* right) returned, no node of either squished tree has exactly one child,
\* every node has at least one operator, the operators of each squished tree
\* read top-down are the nodes of its plan read top-down, and the forks of
\* the squished tree are the forks of the plan; new returned Some exactly
\* when the two squished trees have the same shape, and the composer then
\* begins with the operators of the two root nodes.
C40_SquishAndCompose ==
    composer.state = "returned" =>
        /\ Squished(left, squished[1])
        /\ Squished(right, squished[2])
        /\ composer.result.some <=> SameShape(squished[1], squished[2])
        /\ composer.result.some =>
              /\ composer.result.value.left_operators = squished[1].operators
              /\ composer.result.value.right_operators = squished[2].operators
              /\ Len(composer.result.value.children) = Len(squished[1].children)

\* new returned Some for two plans of different chains: the left one is a
\* chain of two nodes over a fork, the right one a fork whose second child
\* has a child.
C40_Witness ==
    /\ composer.state = "returned" /\ composer.result.some
    /\ Len(left.children) = 1 /\ Len(left.children[1].children) = 2
    /\ Len(right.children) = 2 /\ Len(right.children[2].children) = 1
    /\ Len(squished[1].operators) = 2
    /\ Len(squished[2].children[2].operators) = 2

====
